---------------------------- MODULE Spec2Model ----------------------------
(***************************************************************************)
(* A model of the RMK keyboard firmware slice:                             *)
(*   - the split data path of one peripheral (run_ble_client's             *)
(*     notification callback, the 8-slot split channel,                    *)
(*     PeripheralMatrixMonitor::run, key_event_channel),                   *)
(*   - the split central's BLE clients (run_ble_client's link loop and     *)
(*     CONNECTING_CLIENT),                                                 *)
(*   - the VIA processor (VialService::process / process_via_packet),      *)
(*   - the nRF connection supervisor (initialize_nrf_ble_keyboard_and_run  *)
(*     and run_ble_keyboard).                                              *)
(* Each part has its own specification; the variables of the other parts   *)
(* keep their initial values in it.                                        *)
(***************************************************************************)
EXTENDS Integers, Sequences, FiniteSets, TLC

VARIABLES
    \* ---- split data path (one peripheral) ----
    cfg,                \* the monitor's const generics ROW, COL, ROW_OFFSET, COL_OFFSET
    periphCell,         \* <<row, col>> the peripheral reports in its Key messages
    notifCount,         \* notifications received so far by gatt_client::run's callback
    splitChannel,       \* Channel<_, SplitMessage, 8> of run_ble_peripheral_monitor
    key_event_channel,  \* the KeyEvent channel read by the Keyboard task
    monitorPanicked,    \* the monitor hit an arithmetic-overflow panic
    fwdLog,             \* history: every KeyEvent the monitor has sent, with its source message
    monitorPending,     \* the KeyEvent the monitor holds while suspended in key_event_channel.send
    \* ---- split central clients ----
    clientPc,           \* per client: the await point run_ble_client is suspended at
    CONNECTING_CLIENT,  \* the global AtomicBool
    needBackoff,        \* history, per client: a link failure happened and no 1 s wait since
    connectReturns,     \* history: parity of the central::connect calls that have returned
    linkLog,            \* history, per client: what happened on its current connection
    \* ---- notify_peripheral of one running link ----
    CONNECTION_STATE,   \* the global AtomicBool: the central is connected to a host
    notifyPc,           \* the await of notify_peripheral: "idle" while the link is not running
    conn_state,         \* notify_peripheral's local copy of CONNECTION_STATE
    periphConnState,    \* <<the ConnectionState received last over the current link>>, or <<>>
    stateChanges,       \* changes of CONNECTION_STATE so far
    notifyLog,          \* history: the GATT writes of the current link, <<value, ok>> each
    \* ---- VIA processor ----
    viaTransport,       \* the reader_writer VialService was built with: "usb" or "ble"
    hostCell,           \* <<layer, row, col>> the host application edits in this session
    keymap,             \* KeyMap.layers: [<<layer, row, col>> -> KeyAction]
    FLASH_CHANNEL,      \* the channel of FlashOperationMessage read by the storage task
    viaPc,              \* the await point of VialService::process
    via_report,         \* the ViaReport being processed: input_data, output_data
    viaPending,         \* the message FLASH_CHANNEL.send is blocked on, if any
    lastSetKeycode,     \* history: [cell -> keycode of the last processed SetKeyCode, or -1]
    macro_cache,        \* KeyMap.macro_cache: [0..MACRO_SPACE_SIZE-1 -> byte]
    hostScript,         \* the kind of frames the host application sends in this session
    viaCount,           \* frames of a bounded script processed so far
    viaEnqueued,        \* history: the messages the current request put on FLASH_CHANNEL
    viaBefore,          \* history: keymap and macro_cache when the current request was read
    flashLast,          \* history: [cell -> action of the last KeymapKey enqueued for it]
    viaBorrow,          \* the keymap borrow the VIA task holds while suspended: "none", "shared" or "mut"
    keyboardBorrowed,   \* the Keyboard task's latest keymap borrow: "none", "ok" or "panic"
    viaFrame,           \* history: the frame the reader received for the current request
    viaLog,             \* history: what VialService::run did since its latest read_report
    macroSeq,           \* history: payloads of the MacroSetBuffer requests since offset 0
    layoutOptionsSet,   \* history: the value of the latest SetKeyboardValue{LayoutOptions}, or -1
    keycode_convert,    \* which conversion via::keycode_convert is, one of KeycodeConverts
    \* ---- connection supervisor ----
    noUsb,              \* the build has feature "_no_usb"
    USB_STATE,          \* "Disabled" or "Enabled", stored by softdevice_task
    CONNECTION_TYPE,    \* 0 = USB, 1 = BLE
    ACTIVE_PROFILE,     \* index of the active bond
    storedProfile,      \* the ActiveBleProfile record in storage, -1 when there is none
    supPc,              \* the await point of initialize_nrf_ble_keyboard_and_run
    conn,               \* the peer of the Connection the supervisor holds, or NoConn
    sysAttrLoads,       \* load_sys_attrs calls for the latest connection
    sysAttrSaves,       \* save_sys_attrs calls for the latest connection
    lastCheck,          \* history: check_connection's result for the latest connection
    sessionEnd,         \* history: which select4 arm ended the latest BLE session
    branchObs,          \* history: USB_STATE and CONNECTION_TYPE as read at the loop head
    lastEvent,          \* history: the latest outcome of a supervisor select
    profileRequest,     \* a profile switch asked for and not yet taken by update_profile, or -1
    KEYBOARD_STATE,     \* the global AtomicBool
    lastSwitch,         \* history: the profile of the latest completed switch, or -1
    serverJoin,         \* run_ble_server's join: where set_conn_params and gatt_server::run are
    storedConnectionType, \* the ConnectionType record in storage, or -1 when there is none
    firstPollEnds,      \* history: parity of the iterations in a row that ended at their first poll
    sdStarted           \* softdevice_task has been polled since the chip started

splitVars  == <<cfg, periphCell, notifCount, splitChannel, key_event_channel,
                monitorPanicked, fwdLog, monitorPending>>
clientVars == <<clientPc, CONNECTING_CLIENT, needBackoff, linkLog, connectReturns>>
viaVars    == <<viaTransport, hostCell, keymap, FLASH_CHANNEL, viaPc, via_report,
                viaPending, lastSetKeycode, macro_cache, hostScript, viaCount,
                viaEnqueued, viaBefore, flashLast, viaBorrow, keyboardBorrowed, viaFrame,
                viaLog, macroSeq, layoutOptionsSet, keycode_convert>>
supVars    == <<noUsb, USB_STATE, CONNECTION_TYPE, ACTIVE_PROFILE, storedProfile, supPc,
                conn, sysAttrLoads, sysAttrSaves, lastCheck, sessionEnd, branchObs,
                lastEvent, profileRequest, KEYBOARD_STATE, lastSwitch, serverJoin,
                storedConnectionType, firstPollEnds, sdStarted>>
notifyTaskVars == <<notifyPc, conn_state, periphConnState, stateChanges, notifyLog>>
notifyVars == <<CONNECTION_STATE, notifyPc, conn_state, periphConnState, stateChanges,
                notifyLog>>
vars       == <<splitVars, clientVars, viaVars, supVars, notifyVars>>

-----------------------------------------------------------------------------
(* Bounds and program constants *)

\* Notifications the peripheral sends in one behaviour.
MaxNotifs == 10
\* Capacity of the split channel (Channel<CriticalSectionRawMutex, SplitMessage, 8>).
SplitChannelCap == 8
\* Capacity of key_event_channel (keyevent=32).
KeyEventChannelCap == 32
\* KeyEvent.row / KeyEvent.col and the message's row / col are u8.
U8 == 256
\* Split central clients running concurrently.
NumClients == 3
\* The keymap's dimensions [[[KeyAction; COL]; ROW]; NUM_LAYER].
NUM_LAYER == 2
ROW == 2
COL == 4
\* Capacity of FLASH_CHANNEL (flash=8).
FlashChannelCap == 8
\* A ViaReport holds 32 bytes each way.
ViaReportLen == 32
\* keyboard_macro: the size of macro_cache and the number of macros.
MACRO_SPACE_SIZE == 256
NUM_MACRO == 8
\* The largest payload of a buffer command: 32 bytes less the 4-byte header.
MaxBufferSize == 28
\* Frames the host sends in one session of a bounded script.
MaxScriptFrames == 3
\* Maximum number of bonded devices (profiles).
BONDED_DEVICE_NUM == 8

-----------------------------------------------------------------------------
(* Split data path *)

\* Instantiations of PeripheralMatrixMonitor<ROW, COL, ROW_OFFSET, COL_OFFSET>.
\* The second places a 2x2 peripheral in the last two rows of a 256-row matrix.
Configs ==
    { [ROW |-> 2, COL |-> 4, ROW_OFFSET |-> 2,   COL_OFFSET |-> 0],
      [ROW |-> 2, COL |-> 2, ROW_OFFSET |-> 254, COL_OFFSET |-> 3] }

\* Cells a peripheral may name in a Key message: inside its geometry, on the
\* boundary (row = ROW, col = COL) and beyond it.
PeriphCells(c) ==
    { <<0, c.COL - 1>>, <<c.ROW - 1, 0>>, <<c.ROW, 0>>, <<0, c.COL>>,
      <<c.ROW + 1, 0>>, <<0, c.COL + 1>> }

\* `x as u8`
AsU8(x) == x % U8

\* The check of row/col against the peripheral's geometry: TRUE when the
\* message is rejected.
InvalidRowCol(row, col, c) == row > c.ROW \/ col > c.COL

\* u8 + u8: the sum, and whether it overflowed.
AddU8(a, b) == [value |-> (a + b) % U8, overflow |-> a + b >= U8]

\* The KeyEvent built from a Key message (before the overflow outcome is applied).
MakeKeyEvent(m, c) ==
    [row     |-> AddU8(m.row, AsU8(c.ROW_OFFSET)).value,
     col     |-> AddU8(m.col, AsU8(c.COL_OFFSET)).value,
     pressed |-> m.pressed]

Overflows(m, c) ==
    \/ AddU8(m.row, AsU8(c.ROW_OFFSET)).overflow
    \/ AddU8(m.col, AsU8(c.COL_OFFSET)).overflow

\* A channel that hands its newest message out first.
TrySendFront(ch, m) == IF Len(ch) < SplitChannelCap THEN <<m>> \o ch ELSE ch

\* sender.try_send(split_message): the channel afterwards; a full channel drops
\* the message (the error is only logged).
TrySend(ch, m) == IF Len(ch) < SplitChannelCap THEN Append(ch, m) ELSE ch

\* The MessageToCentralNotification callback of gatt_client::run.  The
\* peripheral's scanner reports the edges of its key in turn: press, release, ...
\* `id` is a history field numbering the notifications.
Notify ==
    /\ ~monitorPanicked
    /\ notifCount < MaxNotifs
    /\ notifCount' = notifCount + 1
    /\ LET m == [row |-> periphCell[1], col |-> periphCell[2],
                 pressed |-> (notifCount % 2 = 0), id |-> notifCount + 1]
       IN splitChannel' = TrySend(splitChannel, m)
    /\ UNCHANGED <<cfg, periphCell, key_event_channel, monitorPanicked, fwdLog, monitorPending>>

\* key_event_channel.send(event).await as polled by the monitor: with room the
\* event is enqueued at once; with the channel full the monitor suspends
\* inside send, holding the event.
MonitorSend(f) ==
    IF Len(key_event_channel) < KeyEventChannelCap
    THEN /\ key_event_channel' = Append(key_event_channel, f.event)
         /\ fwdLog' = Append(fwdLog, f)
         /\ monitorPending' = <<>>
    ELSE /\ monitorPending' = <<f>>
         /\ UNCHANGED <<key_event_channel, fwdLog>>

\* One iteration of PeripheralMatrixMonitor::run: receiver.read() returns the
\* next message (the channel's receive), the row/col check, then
\* key_event_channel.send.  An overflowing sum panics in an overflow-checking
\* build and wraps otherwise.
MonitorRun ==
    /\ ~monitorPanicked
    /\ monitorPending = <<>>
    /\ splitChannel # <<>>
    /\ LET m == Head(splitChannel)
           e == MakeKeyEvent(m, cfg)
       IN /\ splitChannel' = Tail(splitChannel)
          /\ IF InvalidRowCol(m.row, m.col, cfg)
             THEN UNCHANGED <<key_event_channel, monitorPanicked, fwdLog, monitorPending>>
             ELSE \/ /\ Overflows(m, cfg)
                     /\ monitorPanicked' = TRUE
                     /\ UNCHANGED <<key_event_channel, fwdLog, monitorPending>>
                  \/ /\ MonitorSend([src |-> m, event |-> e])
                     /\ UNCHANGED monitorPanicked
    /\ UNCHANGED <<cfg, periphCell, notifCount>>

\* key_event_channel has room again: the send the monitor is suspended in
\* completes and the monitor goes back to receiver.read().
MonitorSendCompletes ==
    /\ monitorPending # <<>>
    /\ Len(key_event_channel) < KeyEventChannelCap
    /\ key_event_channel' = Append(key_event_channel, monitorPending[1].event)
    /\ fwdLog' = Append(fwdLog, monitorPending[1])
    /\ monitorPending' = <<>>
    /\ UNCHANGED <<cfg, periphCell, notifCount, splitChannel, monitorPanicked>>

\* The KeyEvent of a key of the central's own matrix.
CentralKeyEvent == [row |-> 0, col |-> 0, pressed |-> TRUE]

\* The central's own matrix task sends a KeyEvent to key_event_channel.  Its
\* keys are the ones pressed first: before the peripheral's first notification.
CentralMatrixSends ==
    /\ notifCount = 0
    /\ Len(key_event_channel) < KeyEventChannelCap
    /\ key_event_channel' = Append(key_event_channel, CentralKeyEvent)
    /\ UNCHANGED <<cfg, periphCell, notifCount, splitChannel, monitorPanicked, fwdLog,
                   monitorPending>>

\* The Keyboard task takes the next KeyEvent.
KeyboardReceive ==
    /\ key_event_channel # <<>>
    /\ key_event_channel' = Tail(key_event_channel)
    /\ UNCHANGED <<cfg, periphCell, notifCount, splitChannel, monitorPanicked, fwdLog,
                   monitorPending>>

-----------------------------------------------------------------------------
(* Split central clients: run_ble_client's link loop *)

Clients == 1..NumClients

\* AtomicBool::compare_exchange(expected, new): whether it succeeded, and the
\* flag afterwards.
CompareExchangeAlways(cur, expected, new) == [ok |-> TRUE, value |-> new]

CompareExchange(cur, expected, new) ==
    [ok |-> cur = expected, value |-> IF cur = expected THEN new ELSE cur]

\* The head of the inner `loop`, run with the flag value `flag`: the client
\* either wins CONNECTING_CLIENT and suspends in central::connect, or suspends
\* in the 200 ms timer.
ConnectLoopHead(flag) ==
    LET r == CompareExchange(flag, FALSE, TRUE)
    IN [pc |-> IF r.ok THEN "connecting" ELSE "wait200", flag |-> r.value]

\* A timer elapses: the initial 1 s, the 200 ms of the inner loop, or the 1 s at
\* the end of the outer loop.  Each leads to the head of the inner loop.
\* The await the client suspends in after the one at `pc` returned Ok:
\* central::connect, gatt_client::discover, message_to_central_cccd_write, then
\* the select of gatt_client::run and notify_peripheral.
AfterSuccessSkipping(pc) == "running"

AfterSuccess(pc) ==
    CASE pc = "connecting" -> "discovering"
      [] pc = "discovering" -> "subscribing"
      [] pc = "subscribing" -> "running"

RunningPc == "running"

ClientTimerElapsed(i) ==
    /\ clientPc[i] \in {"start_wait", "wait200", "wait1s"}
    /\ LET h == ConnectLoopHead(CONNECTING_CLIENT)
       IN /\ clientPc' = [clientPc EXCEPT ![i] = h.pc]
          /\ CONNECTING_CLIENT' = h.flag
    /\ needBackoff' = [needBackoff EXCEPT ![i] = IF clientPc[i] = "wait1s" THEN FALSE ELSE @]
    /\ UNCHANGED <<linkLog, connectReturns>>

\* CONNECTING_CLIENT.store(false) after central::connect returned, in the Err
\* arm and after the match.
NoStoreAfterConnect(flag) == flag

StoreAfterConnect(flag) == FALSE

\* central::connect returns Err: store(false), `continue` the inner loop.
ConnectErr(i) ==
    /\ clientPc[i] = "connecting"
    /\ LET h == ConnectLoopHead(StoreAfterConnect(CONNECTING_CLIENT))
       IN /\ clientPc' = [clientPc EXCEPT ![i] = h.pc]
          /\ CONNECTING_CLIENT' = h.flag
    /\ needBackoff' = [needBackoff EXCEPT ![i] = TRUE]
    /\ linkLog' = [linkLog EXCEPT ![i] = <<>>]
    /\ connectReturns' = 1 - connectReturns

\* central::connect returns Ok(conn): store(false), break, gatt_client::discover.
ConnectOk(i) ==
    /\ clientPc[i] = "connecting"
    /\ clientPc' = [clientPc EXCEPT ![i] = AfterSuccess(clientPc[i])]
    /\ CONNECTING_CLIENT' = StoreAfterConnect(CONNECTING_CLIENT)
    /\ linkLog' = [linkLog EXCEPT ![i] = <<"connect">>]
    /\ connectReturns' = 1 - connectReturns
    /\ UNCHANGED needBackoff

\* gatt_client::discover or message_to_central_cccd_write returns Err:
\* `continue` the outer loop (the connection is dropped).
LinkSetupErr(i) ==
    /\ clientPc[i] \in {"discovering", "subscribing"}
    /\ LET h == ConnectLoopHead(CONNECTING_CLIENT)
       IN /\ clientPc' = [clientPc EXCEPT ![i] = h.pc]
          /\ CONNECTING_CLIENT' = h.flag
    /\ needBackoff' = [needBackoff EXCEPT ![i] = TRUE]
    /\ linkLog' = [linkLog EXCEPT ![i] = <<>>]
    /\ UNCHANGED connectReturns

\* gatt_client::discover returns Ok(client).
DiscoverOk(i) ==
    /\ clientPc[i] = "discovering"
    /\ clientPc' = [clientPc EXCEPT ![i] = AfterSuccess(clientPc[i])]
    /\ linkLog' = [linkLog EXCEPT ![i] = Append(@, "discover")]
    /\ UNCHANGED <<CONNECTING_CLIENT, needBackoff, connectReturns>>

\* message_to_central_cccd_write(true) returns Ok: select(receive_peripheral,
\* notify_peripheral) starts.
SubscribeOk(i) ==
    /\ clientPc[i] = "subscribing"
    /\ clientPc' = [clientPc EXCEPT ![i] = AfterSuccess(clientPc[i])]
    /\ linkLog' = [linkLog EXCEPT ![i] = Append(@, "subscribe")]
    /\ UNCHANGED <<CONNECTING_CLIENT, needBackoff, connectReturns>>

\* gatt_client::run returns (the link dropped): the select ends, 1 s timer.
LinkDisconnected(i) ==
    /\ clientPc[i] = "running"
    /\ clientPc' = [clientPc EXCEPT ![i] = "wait1s"]
    /\ needBackoff' = [needBackoff EXCEPT ![i] = TRUE]
    /\ linkLog' = [linkLog EXCEPT ![i] = <<>>]
    /\ UNCHANGED <<CONNECTING_CLIENT, connectReturns>>

\* While select(receive_peripheral, notify_peripheral) runs: the notification
\* callback forwards a message to the split channel ("notify"), or
\* notify_peripheral writes ConnectionState to the peripheral ("write").  The
\* log keeps the first of each per connection.
LinkTraffic(i) ==
    /\ clientPc[i] = RunningPc
    /\ \E t \in {"notify", "write"} :
         /\ \A k \in 1..Len(linkLog[i]) : linkLog[i][k] # t
         /\ linkLog' = [linkLog EXCEPT ![i] = Append(@, t)]
    /\ UNCHANGED <<clientPc, CONNECTING_CLIENT, needBackoff, connectReturns>>

-----------------------------------------------------------------------------
(* Split central: notify_peripheral of one link, inside run_ble_client's select *)

\* Changes of CONNECTION_STATE followed in one run.
MaxStateChanges == 3

\* What the peripheral holds after message_to_peripheral_write(value)
\* returned: the value when the write succeeded, what it had otherwise.
AfterWrite(held, value, ok) == IF ok THEN <<value>> ELSE held

\* The select starts: notify_peripheral loads CONNECTION_STATE and writes it
\* once ("Send once on start").
NotifyStart ==
    /\ notifyPc = "idle"
    /\ conn_state' = CONNECTION_STATE
    /\ notifyPc' = "writing"
    /\ notifyLog' = <<>>
    /\ UNCHANGED <<CONNECTION_STATE, periphConnState, stateChanges>>

\* message_to_peripheral_write(&buf) returns: Err is logged and nothing else;
\* the 200 ms timer follows.
NotifyWriteReturns ==
    /\ notifyPc = "writing"
    /\ \E ok \in BOOLEAN :
         /\ periphConnState' = AfterWrite(periphConnState, conn_state, ok)
         /\ notifyLog' = Append(notifyLog, <<conn_state, ok>>)
    /\ notifyPc' = "timer"
    /\ UNCHANGED <<CONNECTION_STATE, conn_state, stateChanges>>

\* The 200 ms timer elapses with CONNECTION_STATE different from conn_state:
\* conn_state takes the new value and it is written.  (With the same value
\* the task goes back to the timer.)
NotifyObservesChange ==
    /\ notifyPc = "timer"
    /\ conn_state # CONNECTION_STATE
    /\ conn_state' = CONNECTION_STATE
    /\ notifyPc' = "writing"
    /\ UNCHANGED <<CONNECTION_STATE, periphConnState, stateChanges, notifyLog>>

\* Another task stores a new CONNECTION_STATE.
ConnectionStateChanges ==
    /\ stateChanges < MaxStateChanges
    /\ CONNECTION_STATE' = ~CONNECTION_STATE
    /\ stateChanges' = stateChanges + 1
    /\ UNCHANGED <<notifyPc, conn_state, periphConnState, notifyLog>>

\* receive_peripheral returns (the link dropped): the select ends and
\* notify_peripheral is dropped with it.
NotifyLinkDrops ==
    /\ notifyPc # "idle"
    /\ notifyPc' = "idle"
    /\ periphConnState' = <<>>
    /\ UNCHANGED <<CONNECTION_STATE, conn_state, stateChanges, notifyLog>>

-----------------------------------------------------------------------------
(* VIA processor: VialService::process and process_via_packet *)

Cells == (0..(NUM_LAYER - 1)) \X (0..(ROW - 1)) \X (0..(COL - 1))

\* Cells the host application edits in a keycode session: the first and the
\* last cell, and two in between.
HostCells == {<<0, 0, 0>>, <<0, 0, 1>>, <<0, ROW - 1, 2>>, <<NUM_LAYER - 1, ROW - 1, COL - 1>>}

\* Keycodes the host writes: 0x0004 (A) and 0x0102, whose two bytes differ.
HostKeycodes == {4, 258}

\* The keycode of the default keymap at a cell (every cell its own).
DefaultKeycode(cell) == 16 + (cell[1] * ROW + cell[2]) * COL + cell[3]

\* via::keycode_convert is used by process_via_packet and its mapping between
\* 16-bit VIA keycodes and KeyActions is given nowhere: it is one of these.
\* "one_to_one": every keycode has a KeyAction of its own.
\* "unassigned_as_No": only the keycodes of one byte (the HID usage table)
\* name a KeyAction; those from FirstUnassigned on are read as KeyAction::No.
KeycodeConverts == {"one_to_one", "unassigned_as_No"}

FirstUnassigned == 256

\* via::keycode_convert: a 16-bit VIA keycode as a KeyAction, and back.  The
\* KeyAction of an assigned keycode other than 0 and 1 is written Single(k),
\* whichever variant it is.
from_via_keycode(k) ==
    IF k = 0 THEN [tag |-> "No", code |-> 0]
    ELSE IF k = 1 THEN [tag |-> "Transparent", code |-> 0]
    ELSE IF keycode_convert = "unassigned_as_No" /\ k >= FirstUnassigned
         THEN [tag |-> "No", code |-> 0]
    ELSE [tag |-> "Single", code |-> k]

to_via_keycode(a) ==
    IF a.tag = "No" THEN 0 ELSE IF a.tag = "Transparent" THEN 1 ELSE a.code

\* ViaCommand::from_primitive: the command a byte names; any other byte is Unhandled.
ViaCommandFromPrimitive(b) ==
    CASE b = 1 -> "GetProtocolVersion"
      [] b = 2 -> "GetKeyboardValue"
      [] b = 3 -> "SetKeyboardValue"
      [] b = 4 -> "DynamicKeymapGetKeyCode"
      [] b = 5 -> "DynamicKeymapSetKeyCode"
      [] b = 6 -> "DynamicKeymapReset"
      [] b = 7 -> "CustomSetValue"
      [] b = 8 -> "CustomGetValue"
      [] b = 9 -> "CustomSave"
      [] b = 10 -> "EepromReset"
      [] b = 11 -> "BootloaderJump"
      [] b = 12 -> "DynamicKeymapMacroGetCount"
      [] b = 13 -> "DynamicKeymapMacroGetBufferSize"
      [] b = 14 -> "DynamicKeymapMacroGetBuffer"
      [] b = 15 -> "DynamicKeymapMacroSetBuffer"
      [] b = 16 -> "DynamicKeymapMacroReset"
      [] b = 17 -> "DynamicKeymapGetLayerCount"
      [] b = 18 -> "DynamicKeymapGetBuffer"
      [] b = 19 -> "DynamicKeymapSetBuffer"
      [] b = 20 -> "DynamicKeymapGetEncoder"
      [] b = 21 -> "DynamicKeymapSetEncoder"
      [] b = 254 -> "Vial"
      [] OTHER -> "Unhandled"

\* ViaKeyboardInfo::try_from_primitive: the subcommand a byte names, or "Err".
ViaKeyboardInfoTryFromPrimitive(b) ==
    CASE b = 1 -> "Uptime"
      [] b = 2 -> "LayoutOptions"
      [] b = 3 -> "SwitchMatrixState"
      [] b = 4 -> "FirmwareVersion"
      [] b = 5 -> "DeviceIndication"
      [] OTHER -> "Err"

\* ViaCommand::Unhandled as u8
ViaUnhandled == 255

ZeroFrame == [i \in 1..ViaReportLen |-> 0]

\* A 32-byte frame starting with `head`, zero after it.
Frame(head) == [i \in 1..ViaReportLen |-> IF i <= Len(head) THEN head[i] ELSE 0]

\* Byte k (counted from 0) of a frame.
Byte(f, k) == f[k + 1]

\* BigEndian::read_u16(&f[k..k+2]) and BigEndian::write_u16(&mut f[k..k+2], v)
ReadU16BE(f, k) == Byte(f, k) * 256 + Byte(f, k + 1)

WriteU16LE(f, k, v) == [f EXCEPT ![k + 1] = v % 256, ![k + 2] = v \div 256]

WriteU16BE(f, k, v) == [f EXCEPT ![k + 1] = v \div 256, ![k + 2] = v % 256]

\* LittleEndian::read_u16(&f[k..k+2])
ReadU16LE(f, k) == Byte(f, k + 1) * 256 + Byte(f, k)

\* BigEndian::read_u32(&f[k..k+4]) and BigEndian::write_u32(&mut f[k..k+4], v)
ReadU32BE(f, k) == ReadU16BE(f, k) * 65536 + ReadU16BE(f, k + 2)

WriteU32BE(f, k, v) == WriteU16BE(WriteU16BE(f, k, v \div 65536), k + 2, v % 65536)

\* The frames the host sends.
SetKeyCodeFrame(cell, k) == Frame(<<5, cell[1], cell[2], cell[3], k \div 256, k % 256>>)
GetKeyCodeFrame(cell)    == Frame(<<4, cell[1], cell[2], cell[3]>>)

\* A layer, row and column inside the keymap's dimensions.
InKeymap(row, col, layer) == layer < NUM_LAYER /\ row < ROW /\ col < COL

\* KeyMap::get_action_at(row, col, layer) and set_action_at(row, col, layer, action).
\* Outside the keymap's dimensions (where the access may also panic, see
\* ViaRequest) the read gives KeyAction::No and the write changes nothing.
get_action_at(km, row, col, layer) ==
    IF InKeymap(row, col, layer) THEN km[<<layer, row, col>>] ELSE from_via_keycode(0)
set_action_at(km, row, col, layer, action) ==
    IF InKeymap(row, col, layer) THEN [km EXCEPT ![<<layer, row, col>>] = action] ELSE km

\* read_report: the ViaReport a received frame arrives in.  The USB reader fills
\* input_data and leaves output_data zero; the BLE reader fills output_data.
read_report(transport, frame) ==
    IF transport = "usb"
    THEN [input_data |-> frame, output_data |-> ZeroFrame]
    ELSE [input_data |-> ZeroFrame, output_data |-> frame]

NoMessage == [kind |-> "None"]

\* Position of a cell in layers.iter().flatten().flatten().
NumCells == NUM_LAYER * ROW * COL
FlatIndex(cell) == (cell[1] * ROW + cell[2]) * COL + cell[3]

get_position_transposed(offset, max_row, max_col) ==
    LET current_layer_offset == offset % (max_col * max_row)
    IN [row   |-> current_layer_offset % max_row,
        col   |-> current_layer_offset \div max_row,
        layer |-> offset \div (max_col * max_row)]

get_position_from_offset(offset, max_row, max_col) ==
    LET current_layer_offset == offset % (max_col * max_row)
    IN [row   |-> current_layer_offset \div max_col,
        col   |-> current_layer_offset % max_col,
        layer |-> offset \div (max_col * max_row)]

\* Keycodes a 32-byte frame holds after its 4-byte header.
FrameKeycodes == (ViaReportLen - 4) \div 2

\* The keycode DynamicKeymapSetBuffer reads for the i-th cell it visits (from 0).
SetBufferKeycodeBE(out, i) == ReadU16BE(out, 4 + 2 * i)

SetBufferKeycode(out, i) == ReadU16LE(out, 4 + 2 * i)

\* ViaCommand::DynamicKeymapSetBuffer: the keymap afterwards, the messages
\* given to FLASH_CHANNEL.try_send in order, and whether reading a keycode
\* beyond the frame's last byte panicked.
DynamicKeymapSetBuffer(out, km) ==
    LET offset  == ReadU16BE(out, 1)
        size    == Byte(out, 3)
        rest    == IF offset >= NumCells THEN 0 ELSE NumCells - offset
        visited == IF size < rest THEN size ELSE rest      \* skip(offset).take(size)
        n       == IF visited > FrameKeycodes THEN FrameKeycodes ELSE visited
    IN [keymap |->
           [c \in Cells |->
               IF FlatIndex(c) >= offset /\ FlatIndex(c) < offset + n
               THEN from_via_keycode(SetBufferKeycode(out, FlatIndex(c) - offset))
               ELSE km[c]],
        try_sends |->
           [i \in 1..n |->
               LET pos == get_position_from_offset(offset + i - 1, ROW, COL)
               IN [kind |-> "KeymapKey", layer |-> AsU8(pos.layer), col |-> AsU8(pos.col),
                   row |-> AsU8(pos.row), action |-> from_via_keycode(SetBufferKeycode(out, i - 1))]],
        fault |-> visited > FrameKeycodes]

ZeroMacroCache == [i \in 0..(MACRO_SPACE_SIZE - 1) |-> 0]

\* count_zeros(&data[0..n])
count_nonzeros(data, n) == Cardinality({i \in 0..(n - 1) : data[i] # 0})

count_zeros(data, n) == Cardinality({i \in 0..(n - 1) : data[i] = 0})

\* ViaCommand::DynamicKeymapMacroSetBuffer: macro_cache afterwards, the message
\* given to FLASH_CHANNEL.send, and whether a slice went out of range (a panic:
\* offset + size overflowing u16, end beyond macro_cache, or size > 28).
DynamicKeymapMacroSetBuffer(out, mc) ==
    LET offset == ReadU16BE(out, 1)
        size   == Byte(out, 3)
        end    == (offset + size) % 65536
        reset  == IF offset = 0 THEN ZeroMacroCache ELSE mc
        fault  == offset > end \/ end > MACRO_SPACE_SIZE \/ 4 + size > ViaReportLen
        cache  == [i \in 0..(MACRO_SPACE_SIZE - 1) |->
                      IF i >= offset /\ i < end /\ ~fault
                      THEN Byte(out, 4 + i - offset) ELSE reset[i]]
        num_zero == IF fault THEN 0 ELSE count_zeros(cache, end)
    IN [macro_cache |-> cache,
        send  |-> IF ~fault /\ (size < MaxBufferSize \/ num_zero >= NUM_MACRO)
                  THEN [kind |-> "WriteMacro", buf |-> cache] ELSE NoMessage,
        fault |-> fault]

\* FlashOperationMessage::KeymapKey { layer, col, row, action }
KeymapKeyTransposed(layer, row, col, action) ==
    [kind |-> "KeymapKey", layer |-> layer, col |-> row, row |-> col, action |-> action]

KeymapKey(layer, row, col, action) ==
    [kind |-> "KeymapKey", layer |-> layer, col |-> col, row |-> row, action |-> action]

\* process_via_packet with every command arm left out: the response is the
\* request and nothing else happens.
EchoOnly(report, km, mc, now) ==
    [report |-> [input_data |-> report.output_data, output_data |-> report.output_data],
     keymap |-> km, macro_cache |-> mc, try_sends |-> <<>>, send |-> [kind |-> "None"],
     fault |-> FALSE, oob |-> FALSE]

\* VIA_PROTOCOL_VERSION and VIA_FIRMWARE_VERSION of via::protocol.
VIA_PROTOCOL_VERSION == 9
VIA_FIRMWARE_VERSION == 1

\* ViaCommand::DynamicKeymapGetBuffer's response: the keycodes of the cells
\* at positions offset/2 .. offset/2 + size/2 - 1, big-endian from byte 4.
DynamicKeymapGetBuffer(out, inp, km) ==
    LET first   == ReadU16BE(out, 1) \div 2
        rest    == IF first >= NumCells THEN 0 ELSE NumCells - first
        visited == IF Byte(out, 3) \div 2 < rest THEN Byte(out, 3) \div 2 ELSE rest
        n       == IF visited > FrameKeycodes THEN FrameKeycodes ELSE visited
        kc(i)   == to_via_keycode(
                       km[CHOOSE c \in Cells : FlatIndex(c) = first + i])
    IN [input_data |->
           [k \in 1..ViaReportLen |->
               IF k >= 5 /\ k <= 4 + 2 * n
               THEN IF (k - 5) % 2 = 0 THEN kc((k - 5) \div 2) \div 256
                                       ELSE kc((k - 5) \div 2) % 256
               ELSE inp[k]],
        fault |-> visited > FrameKeycodes]

\* The arms that only log "not supported" or "to be implemented"
\* (DynamicKeymapReset, CustomSetValue, CustomGetValue, CustomSave,
\* BootloaderJump, DynamicKeymapMacroReset, the encoder commands), and Vial:
\* the result is the one prepared before the match.
NotSupportedResets(base) == [base EXCEPT !.send = [kind |-> "Reset"]]

NotSupported(base) == base

\* process_via_packet up to its first suspension: the report, the keymap and
\* macro_cache, the messages given to try_send, the message given to
\* FLASH_CHANNEL.send (NoMessage when the command sends none), whether a slice
\* or index went out of range (fault), and whether the keymap was accessed
\* outside its dimensions (oob).  `now` is Instant::now().as_millis() as u32.
ProcessViaPacket(report, km, mc, now) ==
    LET out  == report.output_data
        inp  == out         \* report.input_data = report.output_data
        cmd  == ViaCommandFromPrimitive(Byte(out, 0))
        info == ViaKeyboardInfoTryFromPrimitive(Byte(out, 1))
        base == [report |-> [input_data |-> inp, output_data |-> out], keymap |-> km,
                 macro_cache |-> mc, try_sends |-> <<>>, send |-> NoMessage,
                 fault |-> FALSE, oob |-> FALSE]
        layer == Byte(out, 1)
        row   == Byte(out, 2)
        col   == Byte(out, 3)
        offset == ReadU16BE(out, 1)
        size   == Byte(out, 3)
    IN CASE cmd = "GetProtocolVersion" ->
              [base EXCEPT !.report.input_data = WriteU16BE(inp, 1, VIA_PROTOCOL_VERSION)]
         [] cmd = "GetKeyboardValue" ->
              CASE info = "Uptime" ->
                     [base EXCEPT !.report.input_data = WriteU32BE(inp, 2, now)]
                [] info = "LayoutOptions" ->
                     [base EXCEPT !.report.input_data = WriteU32BE(inp, 2, 0)]
                [] info = "FirmwareVersion" ->
                     [base EXCEPT !.report.input_data = WriteU32BE(inp, 2, VIA_FIRMWARE_VERSION)]
                [] OTHER -> base
         [] cmd = "SetKeyboardValue" ->
              IF info = "LayoutOptions"
              THEN [base EXCEPT !.send = [kind |-> "LayoutOptions", value |-> ReadU32BE(out, 2)]]
              ELSE base
         [] cmd = "DynamicKeymapGetKeyCode" ->
              [base EXCEPT
                 !.report.input_data =
                     WriteU16BE(inp, 4, to_via_keycode(get_action_at(km, row, col, layer))),
                 !.oob = ~InKeymap(row, col, layer)]
         [] cmd = "DynamicKeymapSetKeyCode" ->
              LET action == from_via_keycode(ReadU16BE(out, 4))
              IN [base EXCEPT
                    !.keymap = set_action_at(km, row, col, layer, action),
                    !.send = KeymapKey(layer, row, col, action),
                    !.oob = ~InKeymap(row, col, layer)]
         [] cmd = "EepromReset" -> [base EXCEPT !.send = [kind |-> "Reset"]]
         [] cmd = "DynamicKeymapMacroGetCount" ->
              [base EXCEPT !.report.input_data = [inp EXCEPT ![2] = 8]]
         [] cmd = "DynamicKeymapMacroGetBufferSize" ->
              [base EXCEPT !.report.input_data =
                  [inp EXCEPT ![2] = (MACRO_SPACE_SIZE % 65536) \div 256,
                              ![3] = MACRO_SPACE_SIZE % 256]]
         [] cmd = "DynamicKeymapMacroGetBuffer" ->
              IF size <= MaxBufferSize
              THEN IF offset + size > MACRO_SPACE_SIZE
                   THEN [base EXCEPT !.fault = TRUE]
                   ELSE [base EXCEPT !.report.input_data =
                            [k \in 1..ViaReportLen |->
                                IF k >= 5 /\ k <= 4 + size THEN mc[offset + k - 5] ELSE inp[k]]]
              ELSE [base EXCEPT !.report.input_data = [inp EXCEPT ![1] = 255]]
         [] cmd = "DynamicKeymapMacroSetBuffer" ->
              LET r == DynamicKeymapMacroSetBuffer(out, mc)
              IN [base EXCEPT !.macro_cache = r.macro_cache, !.send = r.send,
                              !.fault = r.fault]
         [] cmd = "DynamicKeymapGetLayerCount" ->
              [base EXCEPT !.report.input_data = [inp EXCEPT ![2] = NUM_LAYER]]
         [] cmd = "DynamicKeymapGetBuffer" ->
              LET r == DynamicKeymapGetBuffer(out, inp, km)
              IN [base EXCEPT !.report.input_data = r.input_data, !.fault = r.fault]
         [] cmd = "DynamicKeymapSetBuffer" ->
              LET r == DynamicKeymapSetBuffer(out, km)
              IN [base EXCEPT !.keymap = r.keymap, !.try_sends = r.try_sends,
                              !.fault = r.fault]
         [] cmd = "Unhandled" ->
              [base EXCEPT !.report.input_data = [inp EXCEPT ![1] = ViaUnhandled]]
         [] OTHER -> NotSupported(base)

\* More frames the host sends: an unknown command with a body, keyboard values,
\* macro and keymap buffers.  `data` is the payload after the 4-byte header.
UnknownFrame == Frame(<<22, 7, 8, 9>>)
KeyboardValueFrame(cmd, info, v) == Frame(<<cmd, info, 0, 0, v \div 256, v % 256>>)
BufferFrame(cmd, offset, size, data) ==
    Frame(<<cmd, offset \div 256, offset % 256, size>> \o data)
Repeat(n, b) == [i \in 1..n |-> b]

\* The frames of each host session.
KeycodeFrames ==
    {SetKeyCodeFrame(hostCell, k) : k \in HostKeycodes}
        \cup {GetKeyCodeFrame(c) : c \in Cells}

ErrorFrames ==
    { UnknownFrame,
      KeyboardValueFrame(2, 9, 0), KeyboardValueFrame(3, 9, 5),
      KeyboardValueFrame(2, 2, 0), KeyboardValueFrame(3, 2, 5),
      SetKeyCodeFrame(<<NUM_LAYER, 0, 0>>, 258), SetKeyCodeFrame(<<0, 0, COL>>, 258),
      GetKeyCodeFrame(<<0, ROW, 0>>) }

MacroFrames ==
    { BufferFrame(15, 0, MaxBufferSize, Repeat(MaxBufferSize, 1)),
      BufferFrame(15, MaxBufferSize, MaxBufferSize, Repeat(MaxBufferSize, 1)),
      BufferFrame(15, 0, MaxBufferSize, Repeat(NUM_MACRO - 1, 0) \o Repeat(MaxBufferSize + 1 - NUM_MACRO, 1)),
      BufferFrame(15, MaxBufferSize, 4, <<1, 0, 1, 0>>),
      BufferFrame(15, MACRO_SPACE_SIZE - 4, MaxBufferSize, Repeat(MaxBufferSize, 1)),
      BufferFrame(15, 0, MaxBufferSize + 1, Repeat(MaxBufferSize, 1)),
      BufferFrame(15, 65535, 1, <<1>>),
      BufferFrame(14, MaxBufferSize - 2, 4, <<>>),
      BufferFrame(14, MACRO_SPACE_SIZE - 4, MaxBufferSize, <<>>) }

KeymapBufferFrames ==
    { BufferFrame(19, 0, MaxBufferSize, Repeat(ViaReportLen - 4, 2)),
      BufferFrame(19, 0, 2, <<2, 1, 4, 0>>),
      BufferFrame(19, NumCells - 1, 2, <<4, 0, 2, 1>>),
      BufferFrame(18, 0, 2, <<>>),
      BufferFrame(18, NumCells - 1, 2, <<>>),
      SetKeyCodeFrame(hostCell, 258) }

\* One request of each command that answers from the frame alone.
EchoFrames ==
    { Frame(<<1, 7, 7, 7>>), KeyboardValueFrame(2, 1, 5), KeyboardValueFrame(2, 3, 5),
      Frame(<<6, 1, 2, 3>>), Frame(<<7, 1, 2, 3>>), Frame(<<8, 1, 2, 3>>),
      Frame(<<9, 1, 2, 3>>), Frame(<<10, 1, 2, 3>>), Frame(<<11, 1, 2, 3>>),
      Frame(<<12, 5, 5, 5>>), Frame(<<13, 5, 5, 5>>),
      BufferFrame(14, 0, 4, <<7, 7, 7, 7, 7>>),
      BufferFrame(14, 0, MaxBufferSize + 1, <<7, 7>>),
      Frame(<<16, 1, 2, 3>>), Frame(<<17, 5, 5, 5>>),
      BufferFrame(18, 0, 4, <<9, 9, 9, 9, 9>>),
      Frame(<<20, 1, 2, 3>>), Frame(<<21, 1, 2, 3>>) }

HostFrames ==
    CASE hostScript = "keycode" -> KeycodeFrames
      [] viaCount >= MaxScriptFrames -> {}
      [] hostScript = "echo" -> EchoFrames
      [] hostScript = "errors" -> ErrorFrames
      [] hostScript = "macro" -> MacroFrames
      [] OTHER -> KeymapBufferFrames

\* FLASH_CHANNEL at the start of a session: empty, one slot free, or full of
\* another task's messages.
OtherTaskMessage == [kind |-> "ActiveBleProfile"]
PendingAtStart ==
    {Repeat(n, OtherTaskMessage) : n \in {0, FlashChannelCap - 1, FlashChannelCap}}

\* Instant::now().as_millis() as u32 when a request is processed.
UptimeMillis == {70000}

\* The cell a KeymapKey message names.
MessageCell(m) == <<m.layer, m.row, m.col>>

Unwritten == [tag |-> "Unwritten", code |-> 0]

\* flashLast after the messages `msgs` were enqueued in order.
RecordEnqueued(fl, msgs) ==
    [c \in Cells |->
        LET at == {i \in 1..Len(msgs) : msgs[i].kind = "KeymapKey" /\ MessageCell(msgs[i]) = c}
        IN IF at = {} THEN fl[c]
           ELSE msgs[CHOOSE i \in at : \A k \in at : k <= i].action]

\* FLASH_CHANNEL.try_send for each message in turn: the messages accepted.  The
\* rest find the channel full and are dropped (the error is only logged).
FlashTrySend(ch, msgs) ==
    LET room == FlashChannelCap - Len(ch)
    IN IF Len(msgs) <= room THEN msgs ELSE SubSeq(msgs, 1, room)

\* What each arm of process_via_packet does with the keymap's RefCell and
\* with FLASH_CHANNEL, in program order.  "borrow" and "borrow_mut" take a
\* guard, "drop" is the end of the statement whose temporary the guard is,
\* "send" is FLASH_CHANNEL.send(..).await and "try_send" the call that never
\* suspends.  In ArmStepsGuardHeld the guards of the two arms that write and
\* then send are bound to a variable that lives to the end of the arm.
ArmStepsGuardHeld(cmd) ==
    CASE cmd = "SetKeyboardValue" -> <<"send">>
      [] cmd = "DynamicKeymapGetKeyCode" -> <<"borrow_mut", "drop">>
      [] cmd = "DynamicKeymapSetKeyCode" -> <<"borrow_mut", "send", "drop">>
      [] cmd = "EepromReset" -> <<"send">>
      [] cmd = "DynamicKeymapMacroGetBuffer" -> <<"borrow", "drop">>
      [] cmd = "DynamicKeymapMacroSetBuffer" -> <<"borrow_mut", "send", "drop">>
      [] cmd = "DynamicKeymapGetBuffer" -> <<"borrow", "drop">>
      [] cmd = "DynamicKeymapSetBuffer" ->
             <<"borrow", "drop", "borrow_mut", "try_send", "drop">>
      [] OTHER -> <<>>

ArmSteps(cmd) ==
    CASE cmd = "SetKeyboardValue" -> <<"send">>
      [] cmd = "DynamicKeymapGetKeyCode" -> <<"borrow_mut", "drop">>
      [] cmd = "DynamicKeymapSetKeyCode" -> <<"borrow_mut", "drop", "send">>
      [] cmd = "EepromReset" -> <<"send">>
      [] cmd = "DynamicKeymapMacroGetBuffer" -> <<"borrow", "drop">>
      [] cmd = "DynamicKeymapMacroSetBuffer" ->
             <<"borrow_mut", "drop", "borrow_mut", "drop", "borrow_mut", "drop",
               "borrow_mut", "drop", "send">>
      [] cmd = "DynamicKeymapGetBuffer" -> <<"borrow", "drop">>
      [] cmd = "DynamicKeymapSetBuffer" ->
             <<"borrow", "drop", "borrow_mut", "try_send", "drop">>
      [] OTHER -> <<>>

\* The guard alive after the first n steps: the latest guard taken and not
\* yet dropped.
BorrowAfter(steps, n) ==
    LET at == {i \in 1..n : steps[i] \in {"borrow", "borrow_mut", "drop"}}
        last == CHOOSE i \in at : \A k \in at : k <= i
    IN IF at = {} \/ steps[last] = "drop" THEN "none"
       ELSE IF steps[last] = "borrow" THEN "shared" ELSE "mut"

\* The guard alive when the arm suspends in FLASH_CHANNEL.send, and when
\* process_via_packet returns to process, which awaits write_report.
BorrowAtSend(cmd) ==
    LET steps == ArmSteps(cmd)
        sends == {i \in 1..Len(steps) : steps[i] = "send"}
    IN IF sends = {} THEN "none"
       ELSE BorrowAfter(steps, CHOOSE i \in sends : \A k \in sends : i <= k)

BorrowAtReturn(cmd) == BorrowAfter(ArmSteps(cmd), Len(ArmSteps(cmd)))

\* VialService::run's match on process's result: Ok continues the loop, Err
\* logs and suspends in the 500 ms timer.
RunEndsOnError(result) == IF result = "Ok" THEN "read" ELSE "ended"

RunAfterProcess(result) == IF result = "Ok" THEN "read" ELSE "pause"

\* The payloads of the DynamicKeymapMacroSetBuffer requests processed since
\* the latest one at offset 0, concatenated, and whether each request after
\* it started where the one before ended and fitted (did not panic).
MacroSequenceAfter(seq, out, faulted) ==
    LET offset  == ReadU16BE(out, 1)
        payload == [k \in 1..Byte(out, 3) |-> Byte(out, 3 + k)]
    IN IF ViaCommandFromPrimitive(Byte(out, 0)) # "DynamicKeymapMacroSetBuffer" THEN seq
       ELSE IF faulted THEN [contiguous |-> FALSE, data |-> seq.data]
       ELSE IF offset = 0 THEN [contiguous |-> TRUE, data |-> payload]
       ELSE [contiguous |-> seq.contiguous /\ offset = Len(seq.data),
             data |-> seq.data \o payload]

\* VialService::process from read_report to its next suspension: the frame is
\* read and process_via_packet runs; FLASH_CHANNEL.send suspends on a full
\* channel.  An access outside the keymap's dimensions may panic, an
\* out-of-range slice does: the task is then gone ("fault").
ViaRequest ==
    /\ viaPc = "read"
    /\ \E frame \in HostFrames, now \in UptimeMillis, panics \in BOOLEAN :
       \E r \in {ProcessViaPacket(read_report(viaTransport, frame), keymap,
                                  macro_cache, now)} :
         LET faulted  == r.fault \/ (r.oob /\ panics)
             accepted == FlashTrySend(FLASH_CHANNEL, r.try_sends)
             send     == IF faulted THEN NoMessage ELSE r.send
             sendNow  == send # NoMessage /\ Len(FLASH_CHANNEL) < FlashChannelCap
             enqueued == IF sendNow THEN accepted \o <<send>> ELSE accepted
         IN /\ panics => r.oob
            /\ via_report' = r.report
            /\ keymap' = r.keymap
            /\ macro_cache' = r.macro_cache
            /\ FLASH_CHANNEL' = FLASH_CHANNEL \o enqueued
            /\ viaEnqueued' = enqueued
            /\ flashLast' = RecordEnqueued(flashLast, enqueued)
            /\ viaPending' = IF send # NoMessage /\ ~sendNow THEN send ELSE NoMessage
            /\ viaPc' = IF faulted THEN "fault"
                        ELSE IF send # NoMessage /\ ~sendNow THEN "sending" ELSE "write"
            /\ viaBorrow' =
                 LET cmd == ViaCommandFromPrimitive(Byte(r.report.output_data, 0))
                 IN IF faulted THEN "none"
                    ELSE IF send # NoMessage /\ ~sendNow THEN BorrowAtSend(cmd)
                    ELSE BorrowAtReturn(cmd)
            /\ viaFrame' = frame
            /\ macroSeq' = MacroSequenceAfter(macroSeq, r.report.output_data, faulted)
            /\ layoutOptionsSet' = IF send # NoMessage /\ send.kind = "LayoutOptions"
                                   THEN send.value ELSE layoutOptionsSet
            /\ lastSetKeycode' =
                 IF send # NoMessage /\ send.kind = "KeymapKey"
                    /\ InKeymap(send.row, send.col, send.layer)
                 THEN [lastSetKeycode EXCEPT ![MessageCell(send)] = ReadU16BE(frame, 4)]
                 ELSE lastSetKeycode
    /\ viaBefore' = [keymap |-> keymap, macro_cache |-> macro_cache]
    /\ viaCount' = IF hostScript = "keycode" THEN viaCount ELSE viaCount + 1
    /\ keyboardBorrowed' = "none"
    /\ viaLog' = <<"read">>
    /\ UNCHANGED <<viaTransport, hostCell, hostScript, keycode_convert>>

\* FLASH_CHANNEL.send(..).await completes once the channel has room.
ViaSendCompletes ==
    /\ viaPc = "sending"
    /\ Len(FLASH_CHANNEL) < FlashChannelCap
    /\ FLASH_CHANNEL' = Append(FLASH_CHANNEL, viaPending)
    /\ viaEnqueued' = Append(viaEnqueued, viaPending)
    /\ flashLast' = RecordEnqueued(flashLast, <<viaPending>>)
    /\ viaPending' = NoMessage
    /\ viaPc' = "write"
    /\ viaBorrow' = BorrowAtReturn(ViaCommandFromPrimitive(Byte(via_report.output_data, 0)))
    /\ keyboardBorrowed' = "none"
    /\ UNCHANGED <<viaTransport, hostCell, keymap, via_report, lastSetKeycode, macro_cache,
                   hostScript, viaCount, viaBefore, viaFrame, viaLog, macroSeq, layoutOptionsSet,
                   keycode_convert>>

\* reader_writer.write_report(via_report) returns Ok or Err: the response goes
\* to the host or is lost; process returns and run matches on its result.
ViaWriteReport ==
    /\ viaPc = "write"
    /\ \E result \in {"Ok", "Err"} :
         /\ viaPc' = RunAfterProcess(result)
         /\ viaLog' = Append(viaLog, IF result = "Ok" THEN "write" ELSE "write_err")
    /\ via_report' = [input_data |-> ZeroFrame, output_data |-> ZeroFrame]
    /\ viaEnqueued' = <<>>
    /\ viaBefore' = [keymap |-> keymap, macro_cache |-> macro_cache]
    /\ viaFrame' = ZeroFrame
    /\ keyboardBorrowed' = "none"
    /\ UNCHANGED <<viaTransport, hostCell, keymap, FLASH_CHANNEL, viaPending, lastSetKeycode,
                   macro_cache, hostScript, viaCount, flashLast, viaBorrow, macroSeq, layoutOptionsSet,
                   keycode_convert>>

\* reader_writer.read_report() returns Err: process returns it with `?`.
ViaReadError ==
    /\ viaPc = "read"
    /\ viaPc' = RunAfterProcess("Err")
    /\ viaLog' = <<"read_err">>
    /\ keyboardBorrowed' = "none"
    /\ UNCHANGED <<viaTransport, hostCell, keymap, FLASH_CHANNEL, via_report, viaPending,
                   lastSetKeycode, macro_cache, hostScript, viaCount, viaEnqueued,
                   viaBefore, flashLast, viaBorrow, viaFrame, macroSeq, layoutOptionsSet,
                   keycode_convert>>

\* Timer::after_millis(500) of run's Err arm elapses: the loop calls process
\* again.
ViaPauseElapsed ==
    /\ viaPc = "pause"
    /\ viaPc' = "read"
    /\ viaLog' = Append(viaLog, "pause")
    /\ UNCHANGED <<viaTransport, hostCell, keymap, FLASH_CHANNEL, via_report, viaPending,
                   lastSetKeycode, macro_cache, hostScript, viaCount, viaEnqueued,
                   viaBefore, flashLast, viaBorrow, keyboardBorrowed, viaFrame, macroSeq, layoutOptionsSet,
                   keycode_convert>>

\* The Keyboard task runs while the VIA task is suspended and borrows the
\* keymap, shared or mutably: RefCell panics when the VIA task still holds a
\* guard, unless both borrows are shared.
KeyboardBorrows ==
    /\ viaPc \in {"read", "sending", "write", "pause"}
    /\ keyboardBorrowed = "none"
    /\ \E kind \in {"shared", "mut"} :
         keyboardBorrowed' = IF viaBorrow = "none" \/ (viaBorrow = "shared" /\ kind = "shared")
                             THEN "ok" ELSE "panic"
    /\ UNCHANGED <<viaTransport, hostCell, keymap, FLASH_CHANNEL, viaPc, via_report,
                   viaPending, lastSetKeycode, macro_cache, hostScript, viaCount,
                   viaEnqueued, viaBefore, flashLast, viaBorrow, viaFrame, viaLog, macroSeq, layoutOptionsSet,
                   keycode_convert>>

\* The storage task receives the next FlashOperationMessage.
StorageReceive ==
    /\ FLASH_CHANNEL # <<>>
    /\ FLASH_CHANNEL' = Tail(FLASH_CHANNEL)
    /\ UNCHANGED <<viaTransport, hostCell, keymap, viaPc, via_report, viaPending,
                   lastSetKeycode, macro_cache, hostScript, viaCount, viaEnqueued,
                   viaBefore, flashLast, viaBorrow, keyboardBorrowed, viaFrame, viaLog, macroSeq, layoutOptionsSet,
                   keycode_convert>>

-----------------------------------------------------------------------------
(* Connection supervisor: initialize_nrf_ble_keyboard_and_run, run_ble_keyboard *)

Profiles == 0..(BONDED_DEVICE_NUM - 1)

NoConn == "none"

\* Hosts that may connect while the keyboard advertises.
Peers == {"hostA", "hostB", "hostX"}

\* The bonds loaded from storage: hostA in slot 0, hostB in slot 1.
BondedPeer(profile) ==
    IF profile = 0 THEN "hostA" ELSE IF profile = 1 THEN "hostB" ELSE "nobody"

\* bonder.check_connection(conn): the peer's address matches the bond stored
\* at the active profile index.
check_connection(peer, profile) == BondedPeer(profile) = peer

\* update_profile(bonder) completing for profile p: the active profile and the
\* ActiveBleProfile record in storage afterwards.
update_profile(p) == [active |-> p, stored |-> p]

\* wait_for_usb_enabled() is ready: USB is enabled. The "_no_usb" build's
\* version never completes.
wait_for_usb_enabled(nousb, usb) == ~nousb /\ usb = "Enabled"

\* The ActiveBleProfile records storage may hold at startup (-1: none): the
\* record is one byte, read back as it is.
StoredProfiles == {-1, 0, 1, BONDED_DEVICE_NUM, U8 - 1}

\* The startup load of ACTIVE_PROFILE.
LoadActiveProfileDefault(stored) == 0

LoadActiveProfile(stored) == IF stored # -1 THEN stored ELSE 0

\* The ConnectionType records storage may hold at startup (-1: none).
StoredConnectionTypes == {-1, 0, 1}

\* The startup load of CONNECTION_TYPE; the "_no_usb" build stores 0 after it.
LoadConnectionType(nousb, stored) ==
    IF nousb THEN 0 ELSE IF stored # -1 THEN stored ELSE 0

\* The awaits of the startup code, in order: Storage::new,
\* KeyMap::new_from_storage, the reads of ActiveBleProfile and ConnectionType,
\* and the BONDED_DEVICE_NUM reads of the bond records.  "start" is the last
\* of them: what follows it runs into the main loop without another await.
BootAwaits ==
    <<"boot_storage", "boot_keymap", "boot_profile", "boot_conn_type",
      "boot_bond0", "boot_bond1", "boot_bond2", "boot_bond3",
      "boot_bond4", "boot_bond5", "boot_bond6", "start">>

BootPcs == {BootAwaits[k] : k \in 1..Len(BootAwaits)}

BootIndex(pc) == CHOOSE k \in 1..Len(BootAwaits) : BootAwaits[k] = pc

\* The branch the loop head takes from USB_STATE and CONNECTION_TYPE: the
\* select (or, without USB, the advertise) it suspends in.
SupervisorBranchNoPriority(nousb, usb, ct) ==
    IF nousb THEN "adv_nousb"
    ELSE IF usb # "Disabled" THEN "usb_adv" ELSE "adv"

SupervisorBranch(nousb, usb, ct) ==
    IF nousb THEN "adv_nousb"
    ELSE IF usb # "Disabled"
         THEN IF ct = 0 THEN "usb_kb" ELSE "usb_adv"
         ELSE "adv"

AdvStates == {"usb_adv", "adv", "adv_nousb"}

\* Where the supervisor suspends after a select arm other than a connection:
\* the 10 ms timer followed by `continue` (USB branches), the 10 ms timer that
\* falls through to the 200 ms one (no USB connected), or the 200 ms timer.
AfterOtherArmExits(pc) == "exit"

AfterOtherArm(pc) ==
    CASE pc = "usb_adv" -> "wait10_continue"
      [] pc = "adv" -> "wait10_fall"
      [] OTHER -> "wait200"

\* run_ble_keyboard up to its first suspension, given check_connection's
\* result: whether the session starts, and the load_sys_attrs calls made.
BleKeyboardStartUnchecked(ok) == [session |-> TRUE, loads |-> 1]

BleKeyboardStart(ok) ==
    IF ~ok THEN [session |-> FALSE, loads |-> 0] ELSE [session |-> TRUE, loads |-> 1]

\* The arms of run_ble_keyboard's select4.
SessionArms == {"ble_disconnected", "bas_error", "usb_enabled", "profile_switch"}

\* run_ble_server: join(set_conn_params(&conn), gatt_server::run(..)).
ServerIdle == [set_conn_params |-> "idle", gatt_server |-> "idle"]

ServerStarted == [set_conn_params |-> "timer1", gatt_server |-> "running"]

\* join completes when both of its futures have completed.
JoinCompleted(s) == s.set_conn_params = "done" /\ s.gatt_server = "returned"

\* set_conn_params after a timer: after the first, with a connection handle,
\* the parameters are set and the second timer starts; without a handle, and
\* after the second timer, the function returns.
AfterConnParamsTimer(pc, hasHandle) ==
    IF pc = "timer1" /\ hasHandle THEN "timer2" ELSE "done"

\* save_sys_attrs calls made after the select4, by the arm that ended it.
SaveCallsSkippingUsb(arm) == IF arm = "usb_enabled" THEN 0 ELSE 1

SaveCallsAfterSession(arm) == 1

\* The Connection the supervisor holds once run_ble_keyboard has returned: the
\* function owns conn, so returning drops it.
ConnKeptAfterReturn(c) == c

ConnAfterReturn(c) == NoConn

\* The profiles update_profile(bonder) may complete with: the one asked for
\* while nothing polled it, or else one asked for now.
RequestedProfiles(request, active) ==
    IF request # -1 THEN {request} ELSE Profiles \ {active}

\* CONNECTION_STATE once the futures of the branch were polled for the first
\* time: the branch without USB connected runs run_dummy_keyboard, which
\* starts by storing false; the other branches leave it.
AfterFirstPoll(branch, state) == IF branch = "adv" THEN FALSE ELSE state

\* The main loop's head, entered from the last await of the startup or from a
\* timer: KEYBOARD_STATE is cleared, the branch is chosen and its futures
\* are polled.  advertise_pairable may return Err on that first poll: it is
\* the first future of its select, so the select ends before the other
\* futures were polled and the task suspends in the timer that follows.
SupIterate ==
    /\ supPc \in {"start", "wait10_continue", "wait200"}
    /\ branchObs' = [usb |-> USB_STATE, ct |-> CONNECTION_TYPE]
    /\ KEYBOARD_STATE' = FALSE
    /\ \E advErr \in BOOLEAN :
         LET branch == SupervisorBranch(noUsb, USB_STATE, CONNECTION_TYPE)
         IN /\ advErr => branch \in AdvStates
            /\ supPc' = IF advErr THEN AfterOtherArm(branch) ELSE branch
            /\ CONNECTION_STATE' = IF advErr THEN CONNECTION_STATE
                                   ELSE AfterFirstPoll(branch, CONNECTION_STATE)
            /\ lastEvent' = IF advErr THEN "adv_error" ELSE lastEvent
            /\ firstPollEnds' = IF advErr THEN 1 - firstPollEnds ELSE 0
    /\ UNCHANGED <<noUsb, USB_STATE, CONNECTION_TYPE, ACTIVE_PROFILE, storedProfile, conn,
                   sysAttrLoads, sysAttrSaves, lastCheck, sessionEnd, profileRequest,
                   lastSwitch, serverJoin, storedConnectionType, sdStarted>>

\* The 10 ms timer of the branch without USB elapses; the 200 ms timer follows.
SupWait10Elapsed ==
    /\ UNCHANGED <<serverJoin, storedConnectionType, sdStarted, firstPollEnds>>
    /\ supPc = "wait10_fall"
    /\ supPc' = "wait200"
    /\ UNCHANGED <<noUsb, USB_STATE, CONNECTION_TYPE, ACTIVE_PROFILE, storedProfile, conn,
                   sysAttrLoads, sysAttrSaves, lastCheck, sessionEnd, branchObs, lastEvent,
                   profileRequest, KEYBOARD_STATE,
                   lastSwitch>>

\* The USB keyboard's select3 ends with usb_fut or wait_for_usb_suspend.
UsbKeyboardEnds ==
    /\ UNCHANGED <<serverJoin, storedConnectionType, sdStarted, firstPollEnds>>
    /\ supPc = "usb_kb"
    /\ supPc' = "wait200"
    /\ lastEvent' = "usb_keyboard_ended"
    /\ UNCHANGED <<noUsb, USB_STATE, CONNECTION_TYPE, ACTIVE_PROFILE, storedProfile, conn,
                   sysAttrLoads, sysAttrSaves, lastCheck, sessionEnd, branchObs,
                   profileRequest, KEYBOARD_STATE,
                   lastSwitch>>

\* update_profile(bonder) completes in one of the main loop's selects: the new
\* profile is stored and the select ends.
ProfileSwitch ==
    /\ UNCHANGED <<serverJoin, storedConnectionType, sdStarted, firstPollEnds>>
    /\ supPc \in {"usb_kb", "usb_adv", "adv"}
    /\ \E p \in Profiles \ {ACTIVE_PROFILE} :
         /\ ACTIVE_PROFILE' = update_profile(p).active
         /\ storedProfile' = update_profile(p).stored
         /\ lastSwitch' = p
    /\ supPc' = IF supPc = "usb_kb" THEN "wait10_continue" ELSE AfterOtherArm(supPc)
    /\ lastEvent' = IF supPc = "adv" THEN "switch_no_link" ELSE "switch_usb_keyboard"
    /\ UNCHANGED <<noUsb, USB_STATE, CONNECTION_TYPE, conn, sysAttrLoads, sysAttrSaves,
                   lastCheck, sessionEnd, branchObs, profileRequest, KEYBOARD_STATE>>

\* peripheral::advertise_pairable returns Ok(conn) and run_ble_keyboard runs
\* to its first suspension: the select4, or the timer after its early return.
AdvConnected ==
    /\ supPc \in AdvStates
    /\ \E peer \in Peers :
         LET ok == check_connection(peer, ACTIVE_PROFILE)
             st == BleKeyboardStart(ok)
         IN /\ lastCheck' = IF ok THEN "ok" ELSE "rejected"
            /\ sysAttrLoads' = st.loads
            /\ sysAttrSaves' = 0
            /\ conn' = IF st.session THEN peer ELSE ConnAfterReturn(peer)
            /\ supPc' = IF st.session THEN "ble_session" ELSE "wait200"
            /\ lastEvent' = IF st.session THEN "session_started" ELSE "rejected"
            /\ serverJoin' = IF st.session THEN ServerStarted ELSE ServerIdle
    /\ sessionEnd' = "none"
    /\ UNCHANGED <<noUsb, USB_STATE, CONNECTION_TYPE, ACTIVE_PROFILE, storedProfile, branchObs,
                   profileRequest, KEYBOARD_STATE,
                   lastSwitch, storedConnectionType, firstPollEnds, sdStarted>>

\* An advertising select ends with another arm: an advertising error, usb_fut
\* (USB connected), wait_for_usb_enabled inside wait_for_status_change
\* (CONNECTION_TYPE = USB and USB now enabled) or the dummy keyboard task.
AdvEndsOtherwise ==
    /\ UNCHANGED <<serverJoin, storedConnectionType, sdStarted, firstPollEnds>>
    /\ supPc \in AdvStates
    /\ \E arm \in {"adv_error", "usb_fut", "usb_enabled", "dummy_task"} :
         /\ arm = "usb_fut" => supPc = "usb_adv"
         /\ arm = "dummy_task" => supPc = "adv"
         /\ arm = "usb_enabled" =>
               supPc = "adv" /\ CONNECTION_TYPE = 0 /\ wait_for_usb_enabled(noUsb, USB_STATE)
         /\ lastEvent' = arm
    /\ supPc' = AfterOtherArm(supPc)
    /\ UNCHANGED <<noUsb, USB_STATE, CONNECTION_TYPE, ACTIVE_PROFILE, storedProfile, conn,
                   sysAttrLoads, sysAttrSaves, lastCheck, sessionEnd, branchObs,
                   profileRequest, KEYBOARD_STATE,
                   lastSwitch>>

\* run_ble_keyboard's select4 ended with `arm`: save_sys_attrs, return (the
\* Connection and the futures of the select are dropped), then the main
\* loop's 200 ms timer.
SessionEnd(arm) ==
    /\ IF arm = "profile_switch"
       THEN \E p \in RequestedProfiles(profileRequest, ACTIVE_PROFILE) :
               /\ ACTIVE_PROFILE' = update_profile(p).active
               /\ storedProfile' = update_profile(p).stored
               /\ profileRequest' = -1
               /\ lastSwitch' = p
       ELSE UNCHANGED <<ACTIVE_PROFILE, storedProfile, profileRequest, lastSwitch>>
    /\ sysAttrSaves' = sysAttrSaves + SaveCallsAfterSession(arm)
    /\ sessionEnd' = arm
    /\ lastEvent' = IF arm = "profile_switch" THEN "switch_ble_session" ELSE arm
    /\ conn' = ConnAfterReturn(conn)
    /\ supPc' = "wait200"
    /\ serverJoin' = ServerIdle
    /\ UNCHANGED <<noUsb, USB_STATE, CONNECTION_TYPE, sysAttrLoads, lastCheck, branchObs,
                   KEYBOARD_STATE, storedConnectionType, firstPollEnds, sdStarted>>

\* run_ble_keyboard's select4 ends with the battery service, with
\* wait_for_usb_enabled or with update_profile.
BleSessionEnds ==
    /\ supPc = "ble_session"
    /\ \E arm \in SessionArms \ {"ble_disconnected"} :
         /\ arm = "usb_enabled" => wait_for_usb_enabled(noUsb, USB_STATE)
         /\ SessionEnd(arm)

\* One of the two futures run_ble_server joins moved to `next`: when the join
\* has completed run_ble_server returns, which ends the first arm of the
\* select4; otherwise the session stays suspended.
ServerStep(next) ==
    /\ supPc = "ble_session"
    /\ IF JoinCompleted(next)
       THEN SessionEnd("ble_disconnected")
       ELSE /\ serverJoin' = next
            /\ UNCHANGED <<noUsb, USB_STATE, CONNECTION_TYPE, ACTIVE_PROFILE, storedProfile,
                           supPc, conn, sysAttrLoads, sysAttrSaves, lastCheck, sessionEnd,
                           branchObs, lastEvent, profileRequest, KEYBOARD_STATE, lastSwitch,
                           storedConnectionType, firstPollEnds, sdStarted>>

\* gatt_server::run returns: the BLE link dropped.
GattServerReturns ==
    /\ serverJoin.gatt_server = "running"
    /\ ServerStep([serverJoin EXCEPT !.gatt_server = "returned"])

\* One of set_conn_params' two 5 s timers elapses.
ConnParamsTimerElapsed ==
    /\ serverJoin.set_conn_params \in {"timer1", "timer2"}
    /\ ServerStep([serverJoin EXCEPT !.set_conn_params =
                      AfterConnParamsTimer(@, serverJoin.gatt_server = "running")])

\* softdevice_task's callback: SocEvent::PowerUsbDetected / PowerUsbRemoved.
UsbPowerEvent ==
    /\ UNCHANGED <<serverJoin, storedConnectionType, sdStarted, firstPollEnds>>
    /\ ~noUsb
    /\ sdStarted
    /\ USB_STATE' = IF USB_STATE = "Disabled" THEN "Enabled" ELSE "Disabled"
    /\ UNCHANGED <<noUsb, CONNECTION_TYPE, ACTIVE_PROFILE, storedProfile, supPc, conn,
                   sysAttrLoads, sysAttrSaves, lastCheck, sessionEnd, branchObs, lastEvent,
                   profileRequest, KEYBOARD_STATE,
                   lastSwitch>>

\* A profile switch is asked for while the "_no_usb" build awaits
\* advertise_pairable alone: no future of that await polls update_profile, so
\* the request stays pending.
ProfileSwitchRequested ==
    /\ UNCHANGED <<serverJoin, storedConnectionType, sdStarted, firstPollEnds>>
    /\ supPc = "adv_nousb"
    /\ profileRequest = -1
    /\ \E p \in Profiles \ {ACTIVE_PROFILE} : profileRequest' = p
    /\ UNCHANGED <<noUsb, USB_STATE, CONNECTION_TYPE, ACTIVE_PROFILE, storedProfile, supPc,
                   conn, sysAttrLoads, sysAttrSaves, lastCheck, sessionEnd, branchObs,
                   lastEvent, KEYBOARD_STATE,
                   lastSwitch>>

\* The keyboard future of the current select (run_keyboard) starts running.
KeyboardStarts ==
    /\ UNCHANGED <<serverJoin, storedConnectionType, sdStarted, firstPollEnds>>
    /\ supPc \in {"usb_kb", "usb_adv", "ble_session"}
    /\ ~KEYBOARD_STATE
    /\ KEYBOARD_STATE' = TRUE
    /\ UNCHANGED <<noUsb, USB_STATE, CONNECTION_TYPE, ACTIVE_PROFILE, storedProfile, supPc,
                   conn, sysAttrLoads, sysAttrSaves, lastCheck, sessionEnd, branchObs,
                   lastEvent, profileRequest,
                   lastSwitch>>

\* The chip resets: the statics are initialised again, storage keeps its
\* records, and the startup code runs up to its first await, Storage::new;
\* softdevice_task is spawned and not yet polled.
Reset ==
    /\ supPc # "boot_storage" \/ sdStarted
    /\ ACTIVE_PROFILE' = 0
    /\ CONNECTION_TYPE' = 0
    /\ USB_STATE' = "Disabled"
    /\ sdStarted' = FALSE
    /\ firstPollEnds' = 0
    /\ CONNECTION_STATE' = FALSE
    /\ supPc' = "boot_storage"
    /\ conn' = NoConn
    /\ sysAttrLoads' = 0
    /\ sysAttrSaves' = 0
    /\ lastCheck' = "none"
    /\ sessionEnd' = "none"
    /\ lastEvent' = "reset"
    /\ profileRequest' = -1
    /\ KEYBOARD_STATE' = FALSE
    /\ serverJoin' = ServerIdle
    /\ UNCHANGED <<noUsb, storedProfile, branchObs, lastSwitch, storedConnectionType>>

\* softdevice_task's first poll, while the main task is suspended in
\* Storage::new: it reads the USB power status and stores Enabled when VBUS
\* is present, then runs the SoC event loop.  The "_no_usb" build's task
\* does not touch USB_STATE.
SoftdeviceTaskStarts ==
    /\ ~sdStarted
    /\ sdStarted' = TRUE
    /\ \E vbus \in BOOLEAN :
         /\ noUsb => ~vbus
         /\ USB_STATE' = IF vbus THEN "Enabled" ELSE USB_STATE
    /\ UNCHANGED <<noUsb, CONNECTION_TYPE, ACTIVE_PROFILE, storedProfile, supPc, conn,
                   sysAttrLoads, sysAttrSaves, lastCheck, sessionEnd, branchObs, lastEvent,
                   profileRequest, KEYBOARD_STATE, lastSwitch, serverJoin,
                   storedConnectionType, firstPollEnds>>

\* One await of the startup code returns (the flash operations it waits for
\* are completed by softdevice_task) and the code runs to the next:
\* after the ActiveBleProfile read ACTIVE_PROFILE is stored, after the
\* ConnectionType read CONNECTION_TYPE is stored.
StartupStep ==
    /\ supPc \in BootPcs \ {"start"}
    /\ sdStarted
    /\ supPc' = BootAwaits[BootIndex(supPc) + 1]
    /\ ACTIVE_PROFILE' = IF supPc = "boot_profile"
                         THEN LoadActiveProfile(storedProfile) ELSE ACTIVE_PROFILE
    /\ CONNECTION_TYPE' = IF supPc = "boot_conn_type"
                          THEN LoadConnectionType(noUsb, storedConnectionType)
                          ELSE CONNECTION_TYPE
    /\ UNCHANGED <<noUsb, USB_STATE, storedProfile, conn, sysAttrLoads, sysAttrSaves,
                   lastCheck, sessionEnd, branchObs, lastEvent, profileRequest,
                   KEYBOARD_STATE, lastSwitch, serverJoin, storedConnectionType, firstPollEnds, sdStarted>>

-----------------------------------------------------------------------------
(* Initial states and specifications *)

InitSplitIdle ==
    /\ cfg = [ROW |-> 2, COL |-> 4, ROW_OFFSET |-> 2, COL_OFFSET |-> 0]
    /\ periphCell = <<0, 3>>
    /\ notifCount = 0
    /\ splitChannel = <<>>
    /\ key_event_channel = <<>>
    /\ monitorPanicked = FALSE
    /\ fwdLog = <<>>
    /\ monitorPending = <<>>

InitClientIdle ==
    /\ clientPc = [i \in 1..NumClients |-> "start_wait"]
    /\ CONNECTING_CLIENT = FALSE
    /\ needBackoff = [i \in 1..NumClients |-> FALSE]
    /\ linkLog = [i \in 1..NumClients |-> <<>>]
    /\ connectReturns = 0

InitNotifyIdle ==
    /\ CONNECTION_STATE = FALSE
    /\ notifyPc = "idle"
    /\ conn_state = FALSE
    /\ periphConnState = <<>>
    /\ stateChanges = 0
    /\ notifyLog = <<>>

InitViaCommon ==
    /\ keymap = [c \in Cells |-> from_via_keycode(DefaultKeycode(c))]
    /\ viaPc = "read"
    /\ via_report = [input_data |-> ZeroFrame, output_data |-> ZeroFrame]
    /\ viaPending = NoMessage
    /\ lastSetKeycode = [c \in Cells |-> -1]
    /\ macro_cache = ZeroMacroCache
    /\ viaCount = 0
    /\ viaEnqueued = <<>>
    /\ viaBefore = [keymap |-> keymap, macro_cache |-> macro_cache]
    /\ flashLast = [c \in Cells |-> Unwritten]
    /\ viaBorrow = "none"
    /\ keyboardBorrowed = "none"
    /\ viaFrame = ZeroFrame
    /\ viaLog = <<>>
    /\ macroSeq = [contiguous |-> TRUE, data |-> <<>>]
    /\ layoutOptionsSet = -1

InitViaIdle ==
    /\ keycode_convert = "one_to_one"
    /\ viaTransport = "ble"
    /\ hostCell = <<0, 0, 0>>
    /\ hostScript = "keycode"
    /\ FLASH_CHANNEL = <<>>
    /\ InitViaCommon

InitSupCommon ==
    /\ ACTIVE_PROFILE = 0
    /\ CONNECTION_TYPE = 0
    /\ supPc = "boot_storage"
    /\ USB_STATE = "Disabled"
    /\ sdStarted = FALSE
    /\ firstPollEnds = 0
    /\ conn = NoConn
    /\ sysAttrLoads = 0
    /\ sysAttrSaves = 0
    /\ lastCheck = "none"
    /\ sessionEnd = "none"
    /\ branchObs = [usb |-> "Disabled", ct |-> 0]
    /\ lastEvent = "none"
    /\ profileRequest = -1
    /\ KEYBOARD_STATE = FALSE
    /\ lastSwitch = -1
    /\ serverJoin = ServerIdle

InitSupIdle ==
    /\ noUsb = FALSE
    /\ storedConnectionType = -1
    /\ storedProfile = -1
    /\ InitSupCommon

InitSplit ==
    /\ cfg \in Configs
    /\ periphCell \in PeriphCells(cfg)
    /\ notifCount = 0
    /\ splitChannel = <<>>
    /\ key_event_channel = <<>>
    /\ monitorPanicked = FALSE
    /\ fwdLog = <<>>
    /\ monitorPending = <<>>
    /\ InitClientIdle
    /\ InitViaIdle
    /\ InitSupIdle
    /\ InitNotifyIdle

InitClient ==
    InitSplitIdle /\ InitClientIdle /\ InitViaIdle /\ InitSupIdle /\ InitNotifyIdle

InitVia ==
    /\ keycode_convert \in KeycodeConverts
    /\ viaTransport \in {"usb", "ble"}
    /\ hostCell \in HostCells
    /\ hostScript = "keycode"
    /\ FLASH_CHANNEL = <<>>
    /\ InitViaCommon
    /\ InitSplitIdle
    /\ InitClientIdle
    /\ InitSupIdle
    /\ InitNotifyIdle

\* A session of one of the bounded scripts, over either transport.  When it
\* starts, FLASH_CHANNEL may hold writes of other tasks the storage task has
\* not taken yet.
InitViaScript(script) ==
    /\ keycode_convert \in KeycodeConverts
    /\ viaTransport \in {"usb", "ble"}
    /\ hostCell = <<0, 0, 0>>
    /\ hostScript = script
    /\ FLASH_CHANNEL \in PendingAtStart
    /\ InitViaCommon
    /\ InitSplitIdle
    /\ InitClientIdle
    /\ InitSupIdle
    /\ InitNotifyIdle

InitViaErrors == InitViaScript("errors")

InitViaMacro == InitViaScript("macro")

InitViaBuffer == InitViaScript("buffer")

InitViaEcho == InitViaScript("echo")

InitSup ==
    /\ noUsb \in BOOLEAN
    /\ storedConnectionType \in StoredConnectionTypes
    /\ storedProfile \in StoredProfiles
    /\ InitSupCommon
    /\ InitSplitIdle
    /\ InitClientIdle
    /\ InitViaIdle
    /\ InitNotifyIdle

InitNotify ==
    /\ CONNECTION_STATE \in BOOLEAN
    /\ notifyPc = "idle"
    /\ conn_state = FALSE
    /\ periphConnState = <<>>
    /\ stateChanges = 0
    /\ notifyLog = <<>>
    /\ InitSplitIdle
    /\ InitClientIdle
    /\ InitViaIdle
    /\ InitSupIdle

NextNotify ==
    \/ NotifyStart /\ UNCHANGED <<splitVars, clientVars, viaVars, supVars>>
    \/ NotifyWriteReturns /\ UNCHANGED <<splitVars, clientVars, viaVars, supVars>>
    \/ NotifyObservesChange /\ UNCHANGED <<splitVars, clientVars, viaVars, supVars>>
    \/ ConnectionStateChanges /\ UNCHANGED <<splitVars, clientVars, viaVars, supVars>>
    \/ NotifyLinkDrops /\ UNCHANGED <<splitVars, clientVars, viaVars, supVars>>

NextSplit ==
    \/ Notify /\ UNCHANGED <<clientVars, viaVars, supVars, notifyVars>>
    \/ MonitorRun /\ UNCHANGED <<clientVars, viaVars, supVars, notifyVars>>
    \/ KeyboardReceive /\ UNCHANGED <<clientVars, viaVars, supVars, notifyVars>>
    \/ MonitorSendCompletes /\ UNCHANGED <<clientVars, viaVars, supVars, notifyVars>>
    \/ CentralMatrixSends /\ UNCHANGED <<clientVars, viaVars, supVars, notifyVars>>

NextClient ==
    \E i \in Clients :
        \/ ClientTimerElapsed(i) /\ UNCHANGED <<splitVars, viaVars, supVars, notifyVars>>
        \/ ConnectErr(i) /\ UNCHANGED <<splitVars, viaVars, supVars, notifyVars>>
        \/ ConnectOk(i) /\ UNCHANGED <<splitVars, viaVars, supVars, notifyVars>>
        \/ LinkSetupErr(i) /\ UNCHANGED <<splitVars, viaVars, supVars, notifyVars>>
        \/ DiscoverOk(i) /\ UNCHANGED <<splitVars, viaVars, supVars, notifyVars>>
        \/ SubscribeOk(i) /\ UNCHANGED <<splitVars, viaVars, supVars, notifyVars>>
        \/ LinkDisconnected(i) /\ UNCHANGED <<splitVars, viaVars, supVars, notifyVars>>
        \/ LinkTraffic(i) /\ UNCHANGED <<splitVars, viaVars, supVars, notifyVars>>

NextVia ==
    \/ ViaRequest /\ UNCHANGED <<splitVars, clientVars, supVars, notifyVars>>
    \/ ViaSendCompletes /\ UNCHANGED <<splitVars, clientVars, supVars, notifyVars>>
    \/ ViaWriteReport /\ UNCHANGED <<splitVars, clientVars, supVars, notifyVars>>
    \/ StorageReceive /\ UNCHANGED <<splitVars, clientVars, supVars, notifyVars>>
    \/ ViaReadError /\ UNCHANGED <<splitVars, clientVars, supVars, notifyVars>>
    \/ ViaPauseElapsed /\ UNCHANGED <<splitVars, clientVars, supVars, notifyVars>>
    \/ KeyboardBorrows /\ UNCHANGED <<splitVars, clientVars, supVars, notifyVars>>

NextSup ==
    \/ SupIterate /\ UNCHANGED <<splitVars, clientVars, viaVars, notifyTaskVars>>
    \/ SupWait10Elapsed /\ UNCHANGED <<splitVars, clientVars, viaVars, notifyVars>>
    \/ UsbKeyboardEnds /\ UNCHANGED <<splitVars, clientVars, viaVars, notifyVars>>
    \/ ProfileSwitch /\ UNCHANGED <<splitVars, clientVars, viaVars, notifyVars>>
    \/ AdvConnected /\ UNCHANGED <<splitVars, clientVars, viaVars, notifyVars>>
    \/ AdvEndsOtherwise /\ UNCHANGED <<splitVars, clientVars, viaVars, notifyVars>>
    \/ BleSessionEnds /\ UNCHANGED <<splitVars, clientVars, viaVars, notifyVars>>
    \/ GattServerReturns /\ UNCHANGED <<splitVars, clientVars, viaVars, notifyVars>>
    \/ ConnParamsTimerElapsed /\ UNCHANGED <<splitVars, clientVars, viaVars, notifyVars>>
    \/ UsbPowerEvent /\ UNCHANGED <<splitVars, clientVars, viaVars, notifyVars>>
    \/ ProfileSwitchRequested /\ UNCHANGED <<splitVars, clientVars, viaVars, notifyVars>>
    \/ KeyboardStarts /\ UNCHANGED <<splitVars, clientVars, viaVars, notifyVars>>
    \/ Reset /\ UNCHANGED <<splitVars, clientVars, viaVars, notifyTaskVars>>
    \/ StartupStep /\ UNCHANGED <<splitVars, clientVars, viaVars, notifyVars>>
    \/ SoftdeviceTaskStarts /\ UNCHANGED <<splitVars, clientVars, viaVars, notifyVars>>
    \/ ConnectionStateChanges /\ UNCHANGED <<splitVars, clientVars, viaVars, supVars>>

SpecSplit == InitSplit /\ [][NextSplit]_vars

SpecClient == InitClient /\ [][NextClient]_vars

SpecVia == InitVia /\ [][NextVia]_vars

SpecViaErrors == InitViaErrors /\ [][NextVia]_vars

SpecViaMacro == InitViaMacro /\ [][NextVia]_vars

SpecViaBuffer == InitViaBuffer /\ [][NextVia]_vars

SpecViaEcho == InitViaEcho /\ [][NextVia]_vars

SpecSup == InitSup /\ [][NextSup]_vars

SpecNotify == InitNotify /\ [][NextNotify]_vars

\* The clients with their timers elapsing and every central::connect call
\* returning, with Ok or with Err.
SpecClientLive ==
    /\ InitClient
    /\ [][NextClient]_vars
    /\ \A i \in Clients : WF_clientVars(ClientTimerElapsed(i))
    /\ \A i \in Clients : WF_clientVars(ConnectErr(i) \/ ConnectOk(i))

\* The supervisor with its timers elapsing: a task suspended in
\* Timer::after_millis is resumed, and the task spawned at startup gets to run.
SpecSupLive ==
    /\ InitSup
    /\ [][NextSup]_vars
    /\ WF_supVars(SupIterate)
    /\ WF_supVars(SupWait10Elapsed)
    /\ WF_supVars(StartupStep)
    /\ WF_supVars(SoftdeviceTaskStarts)

-----------------------------------------------------------------------------
(* Claims about the split data path *)

\* C1: every KeyEvent the monitor forwards has row = message row + ROW_OFFSET
\* and col = message col + COL_OFFSET as integers (no 8-bit wraparound), and
\* the message's pressed value.
C1_OffsetsApplied ==
    \A i \in 1..Len(fwdLog) :
        /\ fwdLog[i].event.row = fwdLog[i].src.row + cfg.ROW_OFFSET
        /\ fwdLog[i].event.col = fwdLog[i].src.col + cfg.COL_OFFSET
        /\ fwdLog[i].event.pressed = fwdLog[i].src.pressed

\* C2: the monitor never forwards a Key message whose row is >= ROW or whose
\* col is >= COL; the boundary values row = ROW and col = COL are dropped too.
C2_OutOfGeometryDropped ==
    \A i \in 1..Len(fwdLog) :
        fwdLog[i].src.row < cfg.ROW /\ fwdLog[i].src.col < cfg.COL

\* C10: the KeyEvents forwarded for the peripheral's cell strictly alternate
\* pressed = TRUE / pressed = FALSE when its notifications alternate.
C10_ForwardedAlternate ==
    \A i \in 1..(Len(fwdLog) - 1) :
        fwdLog[i].event.pressed # fwdLog[i + 1].event.pressed

\* The KeyEvents in key_event_channel that the monitor sent (the others come
\* from the central's own matrix).
FromPeripheral(e) == e # CentralKeyEvent

ForwardedInChannel == SelectSeq(key_event_channel, FromPeripheral)

\* C11: the notifications the monitor has forwarded are forwarded in the order
\* they were received and each at most once (their numbers strictly increase),
\* and key_event_channel holds the latest forwarded KeyEvents in that order.
C11_ForwardedInOrder ==
    /\ \A i \in 1..(Len(fwdLog) - 1) : fwdLog[i].src.id < fwdLog[i + 1].src.id
    /\ Len(ForwardedInChannel) <= Len(fwdLog)
    /\ \A k \in 1..Len(ForwardedInChannel) :
          ForwardedInChannel[k] =
              fwdLog[Len(fwdLog) - Len(ForwardedInChannel) + k].event

C11_Witness ==
    /\ Len(ForwardedInChannel) >= 2
    /\ \E i \in 1..(Len(fwdLog) - 1) : fwdLog[i + 1].src.id > fwdLog[i].src.id + 1

-----------------------------------------------------------------------------
(* Claims about the split central clients *)

Connecting == {i \in Clients : clientPc[i] = "connecting"}

\* C3: at most one run_ble_client task is inside central::connect at any time.
C3_OneConnectInFlight == Cardinality(Connecting) <= 1

\* C3 witness: one client is inside central::connect while another one, having
\* lost the compare_exchange, waits in the 200 ms timer.
C3_Witness ==
    \E i, j \in Clients :
        i # j /\ clientPc[i] = "connecting" /\ clientPc[j] = "wait200" /\ CONNECTING_CLIENT

\* C9: after any link failure (connect error, discovery error, CCCD subscribe
\* error, disconnect of a running link) the client waits 1 s before it starts
\* the next connect attempt: no client is inside central::connect while a
\* failure of its link is not yet followed by the 1 s wait.
C9_BackoffBeforeReconnect ==
    \A i \in Clients : clientPc[i] = "connecting" => ~needBackoff[i]

\* The state of client i's link: Disconnected while it holds no connection
\* and attempts none.
LinkState(i) ==
    CASE clientPc[i] = "connecting" -> "Connecting"
      [] clientPc[i] = "discovering" -> "Discovering"
      [] clientPc[i] = "subscribing" -> "Subscribed"
      [] clientPc[i] = "running" -> "Running"
      [] OTHER -> "Disconnected"

LinkSetup == <<"connect", "discover", "subscribe">>

\* C23: each link passes through Connecting, Discovering, Subscribed, Running
\* in that order: a link is in one of these states exactly when the steps
\* before it (connect, discovery, CCCD subscription) have succeeded in order on
\* its current connection, and notifications are forwarded and ConnectionState
\* is written only in Running, after all three.
C23_LinkStatesInOrder ==
    \A i \in Clients :
        /\ LinkState(i) \in {"Disconnected", "Connecting"} => linkLog[i] = <<>>
        /\ LinkState(i) = "Discovering" => linkLog[i] = SubSeq(LinkSetup, 1, 1)
        /\ LinkState(i) = "Subscribed" => linkLog[i] = SubSeq(LinkSetup, 1, 2)
        /\ LinkState(i) = "Running" =>
              Len(linkLog[i]) >= 3 /\ SubSeq(linkLog[i], 1, 3) = LinkSetup
        /\ \A k \in 1..Len(linkLog[i]) :
              linkLog[i][k] \in {"notify", "write"} => k > 3 /\ LinkState(i) = "Running"

\* C23 witness: a link in Running has forwarded a notification and written
\* ConnectionState after its three setup steps.
C23_Witness ==
    \E i \in Clients :
        /\ LinkState(i) = "Running"
        /\ linkLog[i] = LinkSetup \o <<"write", "notify">>

\* C34: at every suspension point CONNECTING_CLIENT is true exactly when one
\* run_ble_client task is suspended inside central::connect; once a connect
\* attempt has returned, with Ok or Err, the flag is not left true for it.
C34_FlagIffConnecting ==
    /\ CONNECTING_CLIENT <=> Cardinality(Connecting) = 1
    /\ Cardinality(Connecting) <= 1

\* C34 witness: one client's connect has returned Ok (its link is being set
\* up) and the flag is held by another client that is inside connect.
C34_Witness ==
    \E i, j \in Clients :
        /\ clientPc[i] = "discovering"
        /\ clientPc[j] = "connecting"
        /\ needBackoff[j]
        /\ CONNECTING_CLIENT

\* C35: when every central::connect call eventually returns, a client that
\* waits for CONNECTING_CLIENT eventually starts its own connect attempt,
\* whatever the outcomes of the other clients' attempts.
C35_WaitingClientEventuallyConnects ==
    \A i \in Clients : (clientPc[i] = "wait200") ~> (clientPc[i] = "connecting")

\* notify_peripheral has nothing left to write: it waits in its timer with
\* conn_state equal to CONNECTION_STATE.
NotifyQuiescent == notifyPc = "timer" /\ conn_state = CONNECTION_STATE

\* C33: while a link is Running the central writes CONNECTION_STATE once on
\* entry and after each observed change, and once it has nothing left to
\* write the value the peripheral received last is CONNECTION_STATE, also
\* when a GATT write failed.
C33_PeripheralHoldsConnectionState ==
    /\ notifyPc = "timer" => (notifyLog # <<>> /\ notifyLog[Len(notifyLog)][1] = conn_state)
    /\ NotifyQuiescent => periphConnState = <<CONNECTION_STATE>>

\* The part of C33 about which writes are made: one on entry, and one for
\* each change observed; consecutive writes after the first carry
\* alternating values.
NotifyWritesFollowChanges ==
    /\ notifyPc = "timer" => (notifyLog # <<>> /\ notifyLog[Len(notifyLog)][1] = conn_state)
    /\ \A k \in 2..Len(notifyLog) : notifyLog[k][1] # notifyLog[k - 1][1]

-----------------------------------------------------------------------------
(* Claims about the VIA processor *)

\* The cell a KeyCode request names, and whether the response being written
\* answers a DynamicKeymapGetKeyCode.
RequestCell == <<Byte(via_report.output_data, 1), Byte(via_report.output_data, 2),
                 Byte(via_report.output_data, 3)>>

AnsweringGetKeyCode ==
    /\ viaPc = "write"
    /\ ViaCommandFromPrimitive(Byte(via_report.output_data, 0)) = "DynamicKeymapGetKeyCode"
    /\ RequestCell \in Cells

\* What process_via_packet decides of a DynamicKeymapGetKeyCode(layer,row,col)
\* processed after a DynamicKeymapSetKeyCode(layer,row,col,k) with no other
\* edit of the cell in between: response bytes 4..6 hold, big-endian,
\* to_via_keycode(from_via_keycode(k)).
SetGetAnswersConverted ==
    (AnsweringGetKeyCode /\ lastSetKeycode[RequestCell] # -1) =>
        LET kc == to_via_keycode(from_via_keycode(lastSetKeycode[RequestCell]))
        IN /\ Byte(via_report.input_data, 4) = kc \div 256
           /\ Byte(via_report.input_data, 5) = kc % 256

\* The same Get returns k itself.  Whether it does is up to
\* via::keycode_convert: it holds when the conversion is one_to_one and fails
\* for k = 0x0102 when unassigned keycodes are read as KeyAction::No.
SetGetRoundTrip ==
    (AnsweringGetKeyCode /\ lastSetKeycode[RequestCell] # -1) =>
        /\ Byte(via_report.input_data, 4) = lastSetKeycode[RequestCell] \div 256
        /\ Byte(via_report.input_data, 5) = lastSetKeycode[RequestCell] % 256

SetGetRoundTripOneToOne == keycode_convert = "one_to_one" => SetGetRoundTrip

\* The request process_via_packet is working on (report.output_data), its
\* command, and the response so far (report.input_data).
Request == via_report.output_data
Response == via_report.input_data
RequestCommand == ViaCommandFromPrimitive(Byte(Request, 0))

\* The request has been read and is being, or has been, processed.
Processing == viaPc \in {"sending", "write", "fault"}

\* Nothing of the current request is on FLASH_CHANNEL or waiting to be sent.
NothingEnqueued == viaEnqueued = <<>> /\ viaPending = NoMessage

\* C12: for a DynamicKeymapSetKeyCode on a cell of the keymap, while the send
\* is blocked the cell already holds the converted action and nothing of the
\* request is enqueued; when the response is about to be written the cell
\* holds the action and exactly one KeymapKey with the request's layer, row,
\* col and that action has been enqueued.
C12_SetKeyCodeWritesThenEnqueues ==
    (Processing /\ RequestCommand = "DynamicKeymapSetKeyCode" /\ RequestCell \in Cells) =>
        LET action == from_via_keycode(Byte(Request, 4) * 256 + Byte(Request, 5))
            msg    == [kind |-> "KeymapKey", layer |-> Byte(Request, 1),
                       row |-> Byte(Request, 2), col |-> Byte(Request, 3),
                       action |-> action]
        IN /\ keymap[RequestCell] = action
           /\ viaPc = "sending" => (viaPending = msg /\ viaEnqueued = <<>>)
           /\ viaPc = "write" => (viaPending = NoMessage /\ viaEnqueued = <<msg>>)
           /\ viaPc # "fault"

C12_Witness ==
    /\ viaPc = "write"
    /\ RequestCommand = "DynamicKeymapSetKeyCode"
    /\ RequestCell = <<0, 0, 1>>
    /\ Len(FLASH_CHANNEL) = FlashChannelCap
    /\ viaEnqueued = <<FLASH_CHANNEL[FlashChannelCap]>>
    /\ keymap[<<0, 0, 1>>] = from_via_keycode(258)

\* C13: for a request whose byte 0 names no VIA command the processor goes
\* straight to writing a response whose byte 0 is Unhandled and whose bytes
\* 1..31 are the request's; keymap and macro_cache are as before the request
\* and nothing is enqueued.
C13_UnknownCommandEchoed ==
    (Processing /\ RequestCommand = "Unhandled") =>
        /\ viaPc = "write"
        /\ Byte(Response, 0) = ViaUnhandled
        /\ \A k \in 1..(ViaReportLen - 1) : Byte(Response, k) = Byte(Request, k)
        /\ keymap = viaBefore.keymap
        /\ macro_cache = viaBefore.macro_cache
        /\ NothingEnqueued

C13_Witness ==
    /\ viaPc = "write"
    /\ Request = UnknownFrame
    /\ Byte(Response, 0) = ViaUnhandled
    /\ Byte(Response, 3) = 9
    /\ Len(FLASH_CHANNEL) = FlashChannelCap

\* The request is a GetKeyboardValue or SetKeyboardValue whose byte 1 names
\* no ViaKeyboardInfo.
BadKeyboardValueRequest ==
    /\ Processing
    /\ RequestCommand \in {"GetKeyboardValue", "SetKeyboardValue"}
    /\ ViaKeyboardInfoTryFromPrimitive(Byte(Request, 1)) = "Err"

\* C14: a keyboard-value request with an invalid subcommand byte gets a
\* response whose byte 0 is Unhandled, and enqueues nothing.
C14_BadSubcommandUnhandled ==
    BadKeyboardValueRequest =>
        /\ Byte(Response, 0) = ViaUnhandled
        /\ NothingEnqueued

\* The request is a DynamicKeymapGetKeyCode or SetKeyCode naming a layer, row
\* or column outside the keymap.
OutOfRangeKeyCodeRequest ==
    /\ Processing
    /\ RequestCommand \in {"DynamicKeymapGetKeyCode", "DynamicKeymapSetKeyCode"}
    /\ ~InKeymap(Byte(Request, 2), Byte(Request, 3), Byte(Request, 1))

\* C15: a key-code request outside the keymap gets a response whose byte 0 is
\* Unhandled, leaves every cell as it was and neither enqueues nor waits to
\* enqueue a KeymapKey.
C15_OutOfRangeRefused ==
    OutOfRangeKeyCodeRequest =>
        /\ viaPc = "write"
        /\ Byte(Response, 0) = ViaUnhandled
        /\ keymap = viaBefore.keymap
        /\ NothingEnqueued

\* The header of a buffer request: offset (bytes 1..2, big-endian), size (byte 3).
RequestOffset == Byte(Request, 1) * 256 + Byte(Request, 2)
RequestSize == Byte(Request, 3)

\* The request is a DynamicKeymapMacroSetBuffer that does not fit: it ends
\* beyond macro_cache or carries more than 28 bytes.
MacroOverflowRequest ==
    /\ Processing
    /\ RequestCommand = "DynamicKeymapMacroSetBuffer"
    /\ (RequestOffset + RequestSize > MACRO_SPACE_SIZE \/ RequestSize > MaxBufferSize)

\* C16: a DynamicKeymapMacroSetBuffer that does not fit is refused: the
\* processor goes on to write a response carrying an error code in byte 0,
\* macro_cache is as before the request and no WriteMacro is enqueued.
C16_MacroOverflowRefused ==
    MacroOverflowRequest =>
        /\ viaPc = "write"
        /\ Byte(Response, 0) = ViaUnhandled
        /\ macro_cache = viaBefore.macro_cache
        /\ NothingEnqueued

\* The messages of the current request that are enqueued or waiting to be.
RequestMessages ==
    IF viaPending = NoMessage THEN viaEnqueued ELSE Append(viaEnqueued, viaPending)

\* C17: a DynamicKeymapMacroSetBuffer that fits hands FLASH_CHANNEL exactly one
\* WriteMacro holding all of macro_cache when size < 28 or macro_cache[0 ..
\* offset+size] holds at least NUM_MACRO zero bytes after the write, and
\* nothing otherwise.
C17_MacroFlushRule ==
    (Processing /\ RequestCommand = "DynamicKeymapMacroSetBuffer" /\ ~MacroOverflowRequest) =>
        LET zeros == Cardinality({i \in 0..(RequestOffset + RequestSize - 1) :
                                     macro_cache[i] = 0})
        IN /\ viaPc # "fault"
           /\ IF RequestSize < 28 \/ zeros >= NUM_MACRO
              THEN RequestMessages = <<[kind |-> "WriteMacro", buf |-> macro_cache]>>
              ELSE RequestMessages = <<>>

C17_Witness ==
    /\ viaPc = "write"
    /\ RequestCommand = "DynamicKeymapMacroSetBuffer"
    /\ RequestSize = 28
    /\ RequestOffset = 28
    /\ macro_cache[0] = 0
    /\ macro_cache[28] = 1
    /\ viaEnqueued = <<[kind |-> "WriteMacro", buf |-> macro_cache]>>

\* A DynamicKeymapMacroSetBuffer of 28 bytes with fewer than NUM_MACRO zero
\* bytes so far: nothing is flushed.
C17_WitnessNoFlush ==
    /\ viaPc = "write"
    /\ RequestCommand = "DynamicKeymapMacroSetBuffer"
    /\ RequestSize = 28
    /\ Cardinality({i \in 0..27 : macro_cache[i] = 0}) = NUM_MACRO - 1
    /\ RequestMessages = <<>>

\* The cells a DynamicKeymapSetBuffer request addresses: positions offset ..
\* offset + size - 1 of the flattened layers, as far as the keymap goes.
AddressedCells ==
    {c \in Cells : FlatIndex(c) >= RequestOffset /\ FlatIndex(c) < RequestOffset + RequestSize}

\* C18: after DynamicKeymapSetBuffer the i-th addressed cell holds
\* from_via_keycode of the little-endian value at request bytes 4+2i, 5+2i;
\* after DynamicKeymapSetKeyCode the cell holds from_via_keycode of the
\* big-endian value at request bytes 4, 5.
C18_BufferLittleEndianKeyCodeBigEndian ==
    /\ (viaPc = "write" /\ RequestCommand = "DynamicKeymapSetBuffer") =>
          \A c \in AddressedCells :
              LET i == FlatIndex(c) - RequestOffset
              IN keymap[c] =
                    from_via_keycode(Byte(Request, 4 + 2 * i) + 256 * Byte(Request, 5 + 2 * i))
    /\ (viaPc \in {"sending", "write"} /\ RequestCommand = "DynamicKeymapSetKeyCode"
          /\ RequestCell \in Cells) =>
          keymap[RequestCell] = from_via_keycode(256 * Byte(Request, 4) + Byte(Request, 5))

C18_Witness ==
    /\ viaPc = "write"
    /\ RequestCommand = "DynamicKeymapSetBuffer"
    /\ RequestOffset = NumCells - 1
    /\ Byte(Request, 4) = 4
    /\ Byte(Request, 5) = 0
    /\ keymap[<<NUM_LAYER - 1, ROW - 1, COL - 1>>] = from_via_keycode(4)
    /\ keymap[<<0, 0, 0>>] = from_via_keycode(258)
    /\ keymap[<<0, 0, 1>>] = from_via_keycode(4)

\* Cells whose RAM value differs from the default keymap.
EditedCells == {c \in Cells : keymap[c] # from_via_keycode(DefaultKeycode(c))}

\* C20: whenever the processor is not in the middle of a request, the last
\* KeymapKey enqueued for each edited cell carries that cell's RAM value.
C20_EditedCellsReachFlash ==
    viaPc \in {"read", "write"} => \A c \in EditedCells : flashLast[c] = keymap[c]

\* The awaits of the VIA task: read_report, FLASH_CHANNEL.send, write_report
\* and the 500 ms timer.
ViaSuspended == viaPc \in {"read", "sending", "write", "pause"}

\* C24: the VIA processor holds no RefCell borrow of the keymap while it is
\* suspended (in FLASH_CHANNEL.send, in the report read or write), so a borrow
\* the Keyboard task takes while the VIA task is suspended never panics.
C24_NoBorrowAcrossAwait ==
    /\ ViaSuspended => viaBorrow = "none"
    /\ keyboardBorrowed # "panic"

\* C24 witness: the Keyboard task borrowed the keymap while SetKeyCode is
\* suspended in FLASH_CHANNEL.send on a full channel.
C24_Witness ==
    /\ viaPc = "sending"
    /\ viaPending # NoMessage
    /\ viaPending.kind = "KeymapKey"
    /\ keyboardBorrowed = "ok"

\* C27: VialService::run pairs requests and responses.  Between two reads
\* there is exactly one write_report for the request read, responses follow
\* the order of the requests, and a read or write error is followed by the
\* 500 ms pause and then the next read: the task does not end.
C27_RequestResponsePaired ==
    /\ viaPc = "read" =>
          viaLog \in {<<>>, <<"read", "write">>, <<"read", "write_err", "pause">>,
                      <<"read_err", "pause">>}
    /\ viaPc \in {"sending", "write"} => viaLog = <<"read">>
    /\ (viaLog # <<>> /\ viaLog[Len(viaLog)] \in {"read_err", "write_err"}) => viaPc = "pause"
    /\ viaPc = "pause" => viaLog \in {<<"read", "write_err">>, <<"read_err">>}

\* C27 witness: a request was read, its write_report failed, and after the
\* pause the task reads again.
C27_Witness ==
    /\ viaPc = "read"
    /\ viaLog = <<"read", "write_err", "pause">>

\* C28: process_via_packet reads the command and payload of the frame that
\* read_report received: output_data holds the received frame.
C28_ReceivedFrameDispatched ==
    viaLog = <<"read">> => via_report.output_data = viaFrame

\* The commands process_via_packet reports as not supported.
NotSupportedCommands ==
    {"DynamicKeymapReset", "CustomSetValue", "CustomGetValue", "CustomSave",
     "BootloaderJump", "DynamicKeymapGetEncoder", "DynamicKeymapSetEncoder",
     "DynamicKeymapMacroReset"}

\* The response bytes (positions 0..31) the request's command writes.
OverwrittenBytes ==
    CASE RequestCommand = "GetProtocolVersion" -> {1, 2}
      [] RequestCommand = "GetKeyboardValue" ->
            IF ViaKeyboardInfoTryFromPrimitive(Byte(Request, 1))
                   \in {"Uptime", "LayoutOptions", "FirmwareVersion"}
            THEN 2..5 ELSE {}
      [] RequestCommand = "DynamicKeymapGetKeyCode" -> {4, 5}
      [] RequestCommand = "DynamicKeymapMacroGetCount" -> {1}
      [] RequestCommand = "DynamicKeymapMacroGetBufferSize" -> {1, 2}
      [] RequestCommand = "DynamicKeymapMacroGetBuffer" ->
            IF RequestSize <= MaxBufferSize THEN 4..(3 + RequestSize) ELSE {0}
      [] RequestCommand = "DynamicKeymapGetLayerCount" -> {1}
      [] RequestCommand = "DynamicKeymapGetBuffer" -> 4..(ViaReportLen - 1)
      [] OTHER -> {}

\* The response to the current request is ready to be written.
ResponseReady == viaPc = "write"

\* C25 as stated: the response to every recognised command has the request's
\* byte 0.
C25_CommandByteEchoed ==
    (ResponseReady /\ RequestCommand # "Unhandled") => Byte(Response, 0) = Byte(Request, 0)

\* C25: the response to a recognised command has the request's byte 0, except
\* that DynamicKeymapMacroGetBuffer with a size above 28 answers 0xFF in byte
\* 0; every byte the command does not write equals the request's; the
\* not-supported commands return the request unchanged and change neither
\* keymap, macro_cache nor FLASH_CHANNEL.
C25_RecognisedCommandResponse ==
    (ResponseReady /\ RequestCommand \notin {"Unhandled", "Vial"}) =>
        /\ Byte(Response, 0) =
              IF RequestCommand = "DynamicKeymapMacroGetBuffer" /\ RequestSize > MaxBufferSize
              THEN ViaUnhandled ELSE Byte(Request, 0)
        /\ \A k \in 0..(ViaReportLen - 1) :
              k \notin OverwrittenBytes => Byte(Response, k) = Byte(Request, k)
        /\ RequestCommand \in NotSupportedCommands =>
              /\ Response = Request
              /\ keymap = viaBefore.keymap
              /\ macro_cache = viaBefore.macro_cache
              /\ NothingEnqueued

\* C25 witness: the response to an oversize DynamicKeymapMacroGetBuffer.
C25_Witness ==
    /\ ResponseReady
    /\ RequestCommand = "DynamicKeymapMacroGetBuffer"
    /\ RequestSize = MaxBufferSize + 1
    /\ Byte(Response, 0) = ViaUnhandled
    /\ Byte(Response, 4) = 7

\* C29: for every flat index o below NUM_LAYER*ROW*COL,
\* get_position_from_offset(o, ROW, COL) is the cell at position o of the
\* flattened layers: layer*ROW*COL + row*COL + col = o with row < ROW and
\* col < COL.  So the i-th KeymapKey that DynamicKeymapSetBuffer enqueues names
\* the i-th cell it wrote, and carries that cell's new action.
C29_PositionIsFlatIndex ==
    /\ \A o \in 0..(NumCells - 1) :
          LET p == get_position_from_offset(o, ROW, COL)
          IN /\ p.layer * ROW * COL + p.row * COL + p.col = o
             /\ p.row < ROW
             /\ p.col < COL
    /\ (viaPc \in {"write", "fault"} /\ RequestCommand = "DynamicKeymapSetBuffer") =>
          \A i \in 1..Len(viaEnqueued) :
              LET m == viaEnqueued[i]
              IN /\ m.kind = "KeymapKey"
                 /\ MessageCell(m) \in Cells
                 /\ (m.layer * ROW + m.row) * COL + m.col = RequestOffset + i - 1
                 /\ keymap[MessageCell(m)] = m.action

\* C29 witness: a DynamicKeymapSetBuffer at the last flat index has enqueued
\* the KeymapKey of the last cell of the last layer.
C29_Witness ==
    /\ viaPc = "write"
    /\ RequestCommand = "DynamicKeymapSetBuffer"
    /\ RequestOffset = NumCells - 1
    /\ viaEnqueued # <<>>
    /\ MessageCell(viaEnqueued[1]) = <<NUM_LAYER - 1, ROW - 1, COL - 1>>
    /\ keymap[<<NUM_LAYER - 1, ROW - 1, COL - 1>>] = viaEnqueued[1].action

\* C30: a DynamicKeymapSetBuffer with size <= 28, whatever its offset, reads
\* no byte beyond the frame's byte 31 and does not fault.
C30_SetBufferNeverFaults ==
    (RequestCommand = "DynamicKeymapSetBuffer" /\ RequestSize <= MaxBufferSize) =>
        viaPc # "fault"

\* The cell at position o of the flattened layers.
CellAt(o) == CHOOSE c \in Cells : FlatIndex(c) = o

\* C31: DynamicKeymapGetBuffer reads (offset, size) in the unit
\* DynamicKeymapSetBuffer writes in: its response carries, from byte 4 on, the
\* keycodes of the cells at flat positions offset .. offset + size - 1, the
\* cells a SetBuffer with the same header overwrites.
C31_GetBufferReadsCellsSetBufferWrites ==
    (ResponseReady /\ RequestCommand = "DynamicKeymapGetBuffer"
        /\ RequestSize <= FrameKeycodes) =>
        \A i \in 0..(RequestSize - 1) :
            RequestOffset + i < NumCells =>
                ReadU16BE(Response, 4 + 2 * i) = to_via_keycode(keymap[CellAt(RequestOffset + i)])

\* macro_cache is the concatenation of the payloads of a contiguous run of
\* DynamicKeymapMacroSetBuffer requests, followed by zero bytes.
MacroCacheIsConcatenation ==
    macroSeq.contiguous =>
        \A i \in 0..(MACRO_SPACE_SIZE - 1) :
            macro_cache[i] = IF i < Len(macroSeq.data) THEN macroSeq.data[i + 1] ELSE 0

\* C32: after DynamicKeymapMacroSetBuffer requests with contiguous ascending
\* offsets starting at 0, macro_cache is the concatenation of their payloads
\* followed by zero bytes; DynamicKeymapMacroGetBuffer(offset, size) with
\* size <= 28 answers macro_cache[offset .. offset+size] in response bytes
\* 4 .. 4+size, and with size > 28 answers 0xFF in byte 0.
C32_MacroBufferConcatenation ==
    /\ MacroCacheIsConcatenation
    /\ (Processing /\ RequestCommand = "DynamicKeymapMacroGetBuffer") =>
          IF RequestSize <= MaxBufferSize
          THEN /\ viaPc = "write"
               /\ \A k \in 0..(RequestSize - 1) :
                     Byte(Response, 4 + k) = macro_cache[RequestOffset + k]
          ELSE Byte(Response, 0) = ViaUnhandled

-----------------------------------------------------------------------------
(* Claims about the connection supervisor *)

\* The branch the current iteration took is the USB-priority one: its head
\* read USB enumerated and CONNECTION_TYPE = USB.
UsbPriorityIteration ==
    supPc = "usb_kb" /\ branchObs.usb # "Disabled" /\ branchObs.ct = 0

\* C5 as stated: a connection that check_connection rejects never reaches the
\* select4 of run_ble_keyboard: no load_sys_attrs or save_sys_attrs call is
\* made for it, it is dropped, and the supervisor is in its 200 ms timer or in
\* the iteration after it, which advertises.
C5_RejectedThenAdvertises ==
    /\ supPc = "ble_session" => (lastCheck = "ok" /\ conn # NoConn)
    /\ lastCheck = "rejected" =>
          /\ sysAttrLoads = 0
          /\ sysAttrSaves = 0
          /\ conn = NoConn
          /\ supPc # "ble_session"
    /\ lastEvent = "rejected" =>
          \/ supPc = "wait200"
          \/ supPc \in AdvStates

\* C5 amended: a connection that check_connection rejects never reaches the
\* select4 of run_ble_keyboard: no load_sys_attrs or save_sys_attrs call is
\* made for it, it is dropped, and the supervisor is in its 200 ms timer or in
\* the iteration after it, which advertises unless its head read USB
\* enumerated with CONNECTION_TYPE = USB: then it runs the USB keyboard and
\* does not advertise.
C5_RejectedNeverServed ==
    /\ supPc = "ble_session" => (lastCheck = "ok" /\ conn # NoConn)
    /\ lastCheck = "rejected" =>
          /\ sysAttrLoads = 0
          /\ sysAttrSaves = 0
          /\ conn = NoConn
          /\ supPc # "ble_session"
    /\ lastEvent = "rejected" =>
          \/ supPc = "wait200"
          \/ supPc \in AdvStates
          \/ UsbPriorityIteration

C5_Witness ==
    /\ lastEvent = "rejected"
    /\ lastCheck = "rejected"
    /\ supPc \in AdvStates
    /\ conn = NoConn

\* C6 as stated: whenever CONNECTION_TYPE = USB and USB_STATE is not
\* Disabled, the BLE keyboard session is not running.
C6_NoSessionWhileUsbEnumerated ==
    (CONNECTION_TYPE = 0 /\ USB_STATE # "Disabled") => supPc # "ble_session"

\* C6 amended: in an iteration whose head read CONNECTION_TYPE = USB and
\* USB_STATE not Disabled, the supervisor neither advertises nor runs a BLE
\* keyboard session; that iteration runs the USB keyboard only.
C6_UsbPriorityAtLoopHead ==
    (branchObs.ct = 0 /\ branchObs.usb # "Disabled") =>
        supPc \notin (AdvStates \cup {"ble_session"})

C6_Witness ==
    /\ UsbPriorityIteration
    /\ USB_STATE = "Enabled"
    /\ sessionEnd = "usb_enabled"
    /\ lastEvent = "usb_enabled"

SwitchedWithLink == lastEvent \in {"switch_ble_session", "switch_usb_keyboard"}

\* C7 as stated: after a profile switch during a BLE session or a running
\* USB keyboard, the link is gone and the supervisor waits for, or is in, an
\* iteration that advertises.
C7_SwitchThenAdvertise ==
    SwitchedWithLink =>
        /\ conn = NoConn
        /\ supPc \in ({"wait200", "wait10_continue"} \cup AdvStates)

\* C7 amended: after such a switch a BLE link has been dropped after exactly
\* one save_sys_attrs, and the fresh iteration
\* advertises unless its head read USB enumerated with CONNECTION_TYPE = USB,
\* in which case it runs the USB keyboard again without advertising.
C7_SwitchEndsLink ==
    SwitchedWithLink =>
        /\ conn = NoConn
        /\ lastEvent = "switch_ble_session" => (sysAttrSaves = 1 /\ sessionEnd = "profile_switch")
        /\ \/ supPc \in ({"wait200", "wait10_continue"} \cup AdvStates)
           \/ UsbPriorityIteration

C7_Witness ==
    /\ lastEvent = "switch_ble_session"
    /\ supPc \in AdvStates
    /\ ACTIVE_PROFILE = 1
    /\ storedProfile = 1
    /\ conn = NoConn
    /\ sysAttrSaves = 1

\* C8: a session that passed check_connection runs after exactly one
\* load_sys_attrs and no save_sys_attrs, and once any of the four select4
\* arms has ended it, exactly one save_sys_attrs has been made for it.
C8_SysAttrsBracket ==
    /\ supPc = "ble_session" => (sysAttrLoads = 1 /\ sysAttrSaves = 0)
    /\ sessionEnd \in SessionArms =>
          /\ lastCheck = "ok"
          /\ supPc # "ble_session"
          /\ sysAttrLoads = 1
          /\ sysAttrSaves = 1

C8_Witness ==
    /\ sessionEnd = "usb_enabled"
    /\ CONNECTION_TYPE = 1
    /\ sysAttrLoads = 1
    /\ sysAttrSaves = 1
    /\ supPc = "wait200"

\* C19: with CONNECTION_TYPE = BLE a BLE keyboard session is never ended by
\* the USB-enabled arm of its select4.
C19_BleSessionSurvivesUsb ==
    CONNECTION_TYPE = 1 => (sessionEnd # "usb_enabled" /\ lastEvent # "usb_enabled")

-----------------------------------------------------------------------------
(* Claims about advertising, reset and the main loop *)

\* C21: in every branch of the supervisor, a profile switch that occurs while
\* the supervisor advertises cancels the advertising: the supervisor is never
\* still advertising with a switch that was asked for and not acted on.
C21_AdvertisingCancelledOnSwitch ==
    supPc \in AdvStates => profileRequest = -1

\* C22: after a reset ACTIVE_PROFILE is the stored ActiveBleProfile record when
\* storage has one and 0 otherwise; after a switch to p and a reset it is p.
C22_ProfileRestoredAfterReset ==
    supPc = "start" =>
        /\ storedProfile # -1 => ACTIVE_PROFILE = storedProfile
        /\ storedProfile = -1 => ACTIVE_PROFILE = 0
        /\ lastSwitch # -1 => ACTIVE_PROFILE = lastSwitch

C22_Witness ==
    /\ supPc = "start"
    /\ lastEvent = "reset"
    /\ lastSwitch = 5
    /\ ACTIVE_PROFILE = 5

\* The supervisor is between iterations: before the first one (in the
\* startup code), or in one of
\* the timers that end an iteration.
BetweenIterations == supPc \in BootPcs \cup {"wait10_continue", "wait10_fall", "wait200"}

\* The chip has just been reset.
JustReset == supPc = "boot_storage" /\ lastEvent = "reset"

\* C26: the main loop never terminates.  Whatever ends a select or a BLE
\* session leads to a timer (a connection leads to the session first), every
\* timer is followed by a new iteration unless the chip is reset first (an
\* iteration whose advertising fails at once ends in the next timer), and
\* the new iteration starts with KEYBOARD_STATE = false.
C26_LoopNeverTerminates ==
    /\ [][(~BetweenIterations /\ supPc' # supPc) =>
             \/ BetweenIterations'
             \/ (supPc \in AdvStates /\ supPc' = "ble_session")]_supVars
    /\ [][(BetweenIterations /\ ~BetweenIterations') => ~KEYBOARD_STATE']_supVars
    /\ \A b \in {0, 1} :
          (BetweenIterations /\ ~JustReset /\ firstPollEnds = b)
              ~> (~BetweenIterations \/ JustReset \/ firstPollEnds # b)

\* C26 witness: after a rejected peer a new iteration advertises again, with
\* KEYBOARD_STATE cleared.
C26_Witness ==
    /\ lastEvent = "rejected"
    /\ lastCheck = "rejected"
    /\ supPc \in AdvStates
    /\ ~KEYBOARD_STATE


\* C36: once gatt_server::run has returned, run_ble_server has returned and
\* the BLE session has ended: the session is never still suspended, waiting
\* for set_conn_params, after gatt_server::run returned.
C36_SessionEndsWithGattServer ==
    ~(supPc = "ble_session" /\ serverJoin.gatt_server = "returned")

\* C37: ACTIVE_PROFILE is always a valid profile index,
\* 0 <= ACTIVE_PROFILE < BONDED_DEVICE_NUM, also right after the startup load
\* of the ActiveBleProfile record, whatever byte the record holds.
C37_ActiveProfileInRange ==
    ACTIVE_PROFILE \in Profiles

\* C38: after SetKeyboardValue{LayoutOptions}(v) has been processed, a
\* following GetKeyboardValue{LayoutOptions} returns v big-endian in response
\* bytes 2..6.
C38_LayoutOptionsRoundTrip ==
    (/\ ResponseReady
     /\ RequestCommand = "GetKeyboardValue"
     /\ ViaKeyboardInfoTryFromPrimitive(Byte(Request, 1)) = "LayoutOptions"
     /\ layoutOptionsSet # -1)
        => ReadU32BE(Response, 2) = layoutOptionsSet

=============================================================================
